---- MODULE Spec2Model ----
(***************************************************************************)
(* Pipeline health monitoring and active remediation                       *)
(* (data_lake/src/common/pipeline_health_monitor.py, PipelineHealthMonitor).*)
(*                                                                         *)
(* Spec        one pass of the per-service check of generate_report:       *)
(*             check_zone_freshness, check_cookie_health,                  *)
(*             detect_pipeline_bottlenecks, get_recommendations,           *)
(*             _calculate_weighted_health_score.                           *)
(* SpecScore   the scorer called on given inputs.                          *)
(* SpecExec    _execute_auto_remediation on a list of actions.             *)
(* SpecReport  generate_report over the configured services.               *)
(* SpecMain    main: the --service filter, the report, the exit code.      *)
(* SpecCleaners  _run_cleaners for one service.                            *)
(* SpecZones   _resolve_zone_dir in __init__, then check_zone_freshness on *)
(*             the directories it gave.                                    *)
(* SpecAged    get_recommendations and the score on data of every age.     *)
(* SpecExecTwice  two calls of _execute_auto_remediation on one monitor.   *)
(* SpecFix     _fix_toolost_directory, twice, each time followed by        *)
(*             detect_pipeline_bottlenecks.                                *)
(*                                                                         *)
(* Texts (bottleneck findings, recommendations) are sequences of words, so *)
(* that the substring tests of the code are computed on the text itself.   *)
(* Ages are whole days, as timedelta.days gives them.                      *)
(***************************************************************************)
EXTENDS Integers, Sequences, FiniteSets, TLC

VARIABLES
    pc,               \* position in the operation under way
    service,          \* the service being checked
    zone_files,       \* filesystem at scan time: per zone, the directory and its newest matching file
    cookie_files,     \* filesystem at check time: the credential artifacts of the service
    toolost_raw,      \* filesystem: the .json files of raw/toolost and raw/toolost/streams
    freshness,        \* result of check_zone_freshness
    cookie_health,    \* result of check_cookie_health, changed in place by get_recommendations
    bottlenecks,      \* result of detect_pipeline_bottlenecks
    recommendations,  \* first result of get_recommendations
    auto_actions,     \* second result of get_recommendations
    health_score,     \* result of _calculate_weighted_health_score
    score_runs,       \* calls of the scorer on given inputs: the inputs and results of each
    cookie_manager,   \* whether self.cookie_manager is set
    notifier,         \* whether self.notifier is set
    actions,          \* argument of _execute_auto_remediation
    sorted_actions,   \* the sorted actions still to be dispatched
    executed_actions, \* the outcomes of the call under way
    remediation_log,  \* self.remediation_log
    log_at_entry,     \* self.remediation_log as the last call of the executor found it
    collaborator_calls, \* the calls made to the collaborators, in order
    monitor_services, \* self.services
    enable_auto_remediation, \* self.enable_auto_remediation
    report,           \* the report generate_report builds
    args_service,     \* the --service argument of main, "" when not given
    exit_code,        \* the value main returns
    cleaners_fs,      \* _run_cleaners: the cleaners directory and what each stage script does
    cleaner_stage,    \* _run_cleaners: the position of the loop in cleaner_order
    cleaner_runs,     \* _run_cleaners: the scripts run so far and how each ended
    success,          \* _run_cleaners: the local success, returned at the end
    project_root,     \* self.project_root, a path
    environ,          \* os.environ: the override of each zone variable, <<>> when not set
    zone_dirs,        \* self.zone_dirs
    disk,             \* filesystem: the directories that exist and the data files in them
    latest_files,     \* check_zone_freshness: the latest_file of each zone, "" for None
    os_name,          \* os.name: "posix" or "nt"
    raw_dir,          \* filesystem: the entries directly under raw/toolost, streams apart
    raw_streams_dir,  \* filesystem: raw/toolost/streams, absent, a file, or a directory and its entries
    pending,          \* _fix_toolost_directory: the entries of the glob not yet visited
    moved_count,      \* _fix_toolost_directory: moved_count
    fix_returns,      \* the values the calls of _fix_toolost_directory returned
    moved_counts,     \* moved_count at the end of each call
    entered_with      \* raw/toolost as each call of _fix_toolost_directory found it

check_vars == <<service, zone_files, cookie_files, toolost_raw, freshness, cookie_health,
                bottlenecks, recommendations, auto_actions, health_score>>

exec_vars == <<cookie_manager, notifier, actions, sorted_actions, executed_actions,
               remediation_log, log_at_entry, collaborator_calls>>

report_vars == <<monitor_services, enable_auto_remediation, report>>

main_vars == <<args_service, exit_code>>

cleaner_vars == <<cleaners_fs, cleaner_stage, cleaner_runs, success>>

zone_vars == <<project_root, environ, zone_dirs, disk, latest_files>>

fix_vars == <<os_name, raw_dir, raw_streams_dir, pending, moved_count, fix_returns,
              moved_counts, entered_with>>

vars == <<pc, check_vars, score_runs, exec_vars, report_vars, main_vars, cleaner_vars,
          zone_vars, fix_vars>>

(***************************************************************************)
(* Bounds of the model                                                     *)
(***************************************************************************)
\* Ages up to MaxAge days are compared by the properties on the score.
MaxAge == 16
\* The number of account files of a multi-account service.
MaxAccounts == 2

(***************************************************************************)
(* Configuration set by __init__                                           *)
(***************************************************************************)
\* Python's None, for an age or a date that is absent.
None == -1

zones == <<"landing", "raw", "staging", "curated">>

services == <<"spotify", "tiktok", "distrokid", "toolost", "linktree", "metaads">>

recency_warning_days == 3

recency_critical_days == 7

cleaner_lag_tolerance_days == 1

\* ServicePriority: the smaller the value, the higher the tier.
ServicePriority == [CRITICAL |-> 1, HIGH |-> 2, MEDIUM |-> 3, LOW |-> 4]

\* self.service_priority.get(service, ServicePriority.LOW)
service_priority(s) ==
    CASE s = "toolost" -> ServicePriority.CRITICAL
      [] s \in {"spotify", "tiktok"} -> ServicePriority.HIGH
      [] s \in {"distrokid", "linktree"} -> ServicePriority.MEDIUM
      [] s = "metaads" -> ServicePriority.LOW
      [] OTHER -> ServicePriority.LOW

Range(f) == {f[i] : i \in DOMAIN f}

\* dict.get(key, default)
Get(rec, key, default) == IF key \in DOMAIN rec THEN rec[key] ELSE default

\* "pattern in text" on texts that are sequences of words
InText(pattern, text) ==
    \E i \in 1..(Len(text) - Len(pattern) + 1) :
        \A j \in 1..Len(pattern) : text[i + j - 1] = pattern[j]

(***************************************************************************)
(* Filesystem contents the checks read                                     *)
(***************************************************************************)
\* Ages in days of the newest matching file of a zone.
AgeSamples == {0, 1, 3, 4, 8}

\* A zone directory that exists, with its newest matching file's age (None
\* when no file of the service is in it).
ZoneStates == {[exists |-> TRUE, age |-> a] : a \in {None} \cup AgeSamples}

NoZoneDirs == [z \in {"landing", "raw", "staging", "curated"} |-> [exists |-> FALSE, age |-> None]]

\* The zone directories: all present, or none created yet.
ZoneFiles == [{"landing", "raw", "staging", "curated"} -> ZoneStates] \cup {NoZoneDirs}

\* Ages of a credential artifact, relative to the service's maximum age.
CookieOffsets == {-4, -3, 0, 1, 7, 8}

AccountOffsets == {-4, -3, 1}

SeqsUpTo(S, n) == UNION {[1..k -> S] : k \in 0..n}

(***************************************************************************)
(* _resolve_zone_dir                                                       *)
(***************************************************************************)
\* A path is the sequence of its components; an absolute path starts at "/".
is_absolute(path) == path # <<>> /\ path[1] = "/"

\* pathlib's a / b: an absolute right operand replaces the left one.
Join(a, b) == IF is_absolute(b) THEN b ELSE a \o b

\* The working directory of the process.
cwd == <<"/", "home">>

\* The symbolic links of the filesystem: /srv/link points to /mnt/lake, and
\* /srv/loop to itself.
readlink(path) == IF path = <<"/", "srv", "link">> THEN <<"/", "mnt", "lake">> ELSE path

symlink_loop(path) == path = <<"/", "srv", "loop">>

\* What a resolution that meets a symlink loop gives: it raises RuntimeError.
Unresolvable == <<>>

\* The walk of realpath: each component is applied to the canonical prefix.
RECURSIVE realpath(_, _)
realpath(prefix, rest) ==
    IF prefix = Unresolvable \/ rest = <<>> THEN prefix
    ELSE LET component == Head(rest)
         IN IF component = ".."
            THEN realpath(IF Len(prefix) > 1 THEN SubSeq(prefix, 1, Len(prefix) - 1) ELSE prefix,
                          Tail(rest))
            ELSE IF symlink_loop(Append(prefix, component)) THEN Unresolvable
            ELSE realpath(readlink(Append(prefix, component)), Tail(rest))

\* Path.resolve(): the path made absolute, its links and ".." resolved.
resolve(path) == realpath(<<"/">>, Tail(IF is_absolute(path) THEN path ELSE cwd \o path))

\* The keys of self.zone_dirs, with the variable and the default of each.
zone_labels == <<"landing", "raw", "staging", "curated", "archive", "sandbox">>

env_var(zone_name) ==
    CASE zone_name = "landing" -> "LANDING_ZONE"
      [] zone_name = "raw" -> "RAW_ZONE"
      [] zone_name = "staging" -> "STAGING_ZONE"
      [] zone_name = "curated" -> "CURATED_ZONE"
      [] zone_name = "archive" -> "ARCHIVE_ZONE"
      [] zone_name = "sandbox" -> "SANDBOX_ZONE"

default_relative(zone_name) ==
    CASE zone_name = "landing" -> <<"1_landing">>
      [] zone_name = "raw" -> <<"2_raw">>
      [] zone_name = "staging" -> <<"3_staging">>
      [] zone_name = "curated" -> <<"4_curated">>
      [] zone_name = "archive" -> <<"5_archive">>
      [] zone_name = "sandbox" -> <<"6_sandbox">>

\* Mutant: a relative override is not joined to the project root.
_resolve_zone_dir_override_unjoined(root, env, variable, default) ==
    LET zone_value == env[variable]
        zone_path == IF zone_value # <<>>
                     THEN zone_value
                     ELSE IF is_absolute(default) THEN default ELSE Join(root, default)
    IN IF resolve(zone_path) = Unresolvable THEN zone_path ELSE resolve(zone_path)

\* env[variable] is <<>> when the variable is not set or is empty: both are
\* falsy for "if zone_value".
_resolve_zone_dir(root, env, variable, default) ==
    LET zone_value == env[variable]
        zone_path == IF zone_value # <<>>
                     THEN IF ~is_absolute(zone_value) THEN Join(root, zone_value) ELSE zone_value
                     ELSE IF is_absolute(default) THEN default ELSE Join(root, default)
    IN IF resolve(zone_path) = Unresolvable THEN zone_path ELSE resolve(zone_path)

\* self.zone_dirs as __init__ builds it.
resolve_zone_dirs(root, env) ==
    [z \in Range(zone_labels) |-> _resolve_zone_dir(root, env, env_var(z), default_relative(z))]

IsPrefix(a, b) == Len(a) <= Len(b) /\ SubSeq(b, 1, Len(a)) = a

\* Path.exists() of a directory path; dk: [dirs: the directories of the disk
\* by canonical path, files: its data files, each with the canonical path of
\* its directory, the service whose hint its path holds, its name and its age].
path_exists(path, dk) ==
    /\ resolve(path) # Unresolvable
    /\ \E d \in dk.dirs : IsPrefix(resolve(path), d)

\* The files under zone_base, at any depth, whose path holds a hint of the service.
_collect_zone_files(zone_base, s, dk) ==
    {f \in dk.files : IsPrefix(resolve(zone_base), f.dir) /\ f.hint = s}

\* max(all_files, key=lambda p: p.stat().st_mtime): the youngest file.
latest_file(all_files) == CHOOSE f \in all_files : \A g \in all_files : f.age <= g.age

\* What check_zone_freshness finds of one zone on the disk.
scan_zone(zone_base, s, dk) ==
    IF ~path_exists(zone_base, dk)
    THEN [exists |-> FALSE, age |-> None, latest_file |-> ""]
    ELSE LET all_files == _collect_zone_files(zone_base, s, dk)
         IN IF all_files = {}
            THEN [exists |-> TRUE, age |-> None, latest_file |-> ""]
            ELSE [exists |-> TRUE, age |-> latest_file(all_files).age,
                  latest_file |-> latest_file(all_files).name]

(***************************************************************************)
(* check_zone_freshness                                                    *)
(***************************************************************************)
\* One zone's record.  latest_date stands for the formatted modification
\* time, a non-empty string whenever a file was found.
zone_freshness(zs) ==
    IF ~zs.exists
    THEN [exists |-> FALSE, latest_date |-> None, days_old |-> None]
    ELSE IF zs.age = None
         THEN [exists |-> TRUE, latest_date |-> None, days_old |-> None]
         ELSE [exists |-> TRUE, latest_date |-> zs.age, days_old |-> zs.age]

check_zone_freshness(zf) == [z \in Range(zones) |-> zone_freshness(zf[z])]

\* bool(info.get('latest_date'))
Truthy(latest_date) == latest_date # None

(***************************************************************************)
(* _get_recent_activity_summary                                            *)
(***************************************************************************)
RECURSIVE recent_activity_loop(_, _, _)
recent_activity_loop(fr, i, best) ==
    IF i > Len(zones) THEN best
    ELSE LET zone_name == zones[i]
             days_old == fr[zone_name].days_old
         IN IF days_old = None
            THEN recent_activity_loop(fr, i + 1, best)
            ELSE IF best.days_old = None \/ days_old < best.days_old
                 THEN recent_activity_loop(fr, i + 1, [zone |-> zone_name, days_old |-> days_old])
                 ELSE recent_activity_loop(fr, i + 1, best)

_get_recent_activity_summary(fr) ==
    recent_activity_loop(fr, 1, [zone |-> "", days_old |-> None])

(***************************************************************************)
(* check_cookie_health, _check_single_cookie                               *)
(***************************************************************************)
expiry_days(s) ==
    CASE s \in {"spotify", "tiktok", "distrokid", "linktree"} -> 30
      [] s = "toolost" -> 7
      [] s = "metaads" -> 90
      [] OTHER -> 30

\* The services whose cookie pattern holds a wildcard, one file per account.
wildcard_pattern(s) == s = "tiktok"

\* Mutant: the severity is high from the last day of validity on.
_check_single_cookie_high_on_last_day(file_age, s) ==
    LET max_age == expiry_days(s)
        is_expired == file_age > max_age
    IN [status |-> IF is_expired THEN "expired" ELSE "valid",
        days_old |-> file_age,
        max_age |-> max_age,
        expires_in |-> IF ~is_expired THEN max_age - file_age ELSE 0,
        file |-> s \o "_cookies.json",
        severity |-> IF file_age >= max_age THEN "high" ELSE "normal"]

\* Mutant: an artifact is expired from the day its age reaches the maximum.
_check_single_cookie_expired_at_max(file_age, s) ==
    LET max_age == expiry_days(s)
        is_expired == file_age >= max_age
    IN [status |-> IF is_expired THEN "expired" ELSE "valid",
        days_old |-> file_age,
        max_age |-> max_age,
        expires_in |-> IF ~is_expired THEN max_age - file_age ELSE 0,
        file |-> s \o "_cookies.json",
        severity |-> IF is_expired THEN "high" ELSE "normal"]

_check_single_cookie(file_age, s) ==
    LET max_age == expiry_days(s)
        is_expired == file_age > max_age
    IN [status |-> IF is_expired THEN "expired" ELSE "valid",
        days_old |-> file_age,
        max_age |-> max_age,
        expires_in |-> IF ~is_expired THEN max_age - file_age ELSE 0,
        file |-> s \o "_cookies.json",
        severity |-> IF is_expired THEN "high" ELSE "normal"]

\* Mutant: an expired entry does not end the loop, later entries overwrite it.
RECURSIVE multi_severity_last_wins(_, _, _)
multi_severity_last_wins(results, i, severity) ==
    IF i > Len(results) THEN severity
    ELSE IF results[i].status = "expired"
         THEN multi_severity_last_wins(results, i + 1, "high")
    ELSE IF results[i].status = "valid" /\ Get(results[i], "expires_in", 0) <= 3
         THEN multi_severity_last_wins(results, i + 1, "warning")
         ELSE multi_severity_last_wins(results, i + 1, severity)

\* The loop over the account results: the first expired entry ends it.
RECURSIVE multi_severity_loop(_, _, _)
multi_severity_loop(results, i, severity) ==
    IF i > Len(results) THEN severity
    ELSE IF results[i].status = "expired" THEN "high"
    ELSE IF results[i].status = "valid" /\ Get(results[i], "expires_in", 0) <= 3
         THEN multi_severity_loop(results, i + 1, "warning")
         ELSE multi_severity_loop(results, i + 1, severity)

\* cf: [dir: whether the cookie directory exists, files: the ages of the
\* artifacts found, in the order of enumeration].
check_cookie_health(s, cf) ==
    IF s = "metaads"
    THEN [status |-> "N/A", message |-> "Uses API authentication", days_old |-> "N/A",
          max_age |-> "N/A", expires_in |-> "N/A", severity |-> "none"]
    ELSE IF wildcard_pattern(s)
    THEN IF cf.dir /\ Len(cf.files) > 0
         THEN LET results == [i \in 1..Len(cf.files) |->
                                 [account |-> i] @@ _check_single_cookie(cf.files[i], s)]
              IN [status |-> "multiple", cookies |-> results,
                  severity |-> multi_severity_loop(results, 1, "normal")]
         ELSE [status |-> "missing", message |-> "No cookie files found", severity |-> "high"]
    ELSE IF cf.dir /\ Len(cf.files) > 0
         THEN _check_single_cookie(cf.files[1], s)
         ELSE [status |-> "missing", message |-> "Cookie file not found", severity |-> "high"]

\* The artifacts a service can have on disk.
CookieFiles(s) ==
    IF wildcard_pattern(s)
    THEN {[dir |-> FALSE, files |-> <<>>]}
            \cup {[dir |-> TRUE, files |-> [i \in DOMAIN o |-> expiry_days(s) + o[i]]] :
                    o \in SeqsUpTo(AccountOffsets, MaxAccounts)}
    ELSE {[dir |-> TRUE, files |-> <<>>]}
            \cup {[dir |-> TRUE, files |-> <<expiry_days(s) + o>>] : o \in CookieOffsets}

(***************************************************************************)
(* detect_pipeline_bottlenecks                                             *)
(***************************************************************************)
zone_order == <<"landing", "raw", "staging", "curated">>

\* f"No data in {zone_name} zone despite recent updates in {previous_zone}"
NoDataText(zone_name, previous_zone) ==
    <<"No", "data", "in", zone_name, "zone", "despite", "recent", "updates", "in", previous_zone>>

\* f"{zone_name} zone is {lag} days behind {previous_zone}"
LagText(zone_name, lag, previous_zone) ==
    <<zone_name, "zone", "is", ToString(lag), "days", "behind", previous_zone>>

TooLostDirectText ==
    <<"TooLost", "files", "in", "raw/", "but", "cleaner", "expects", "raw/streams/">>

TooLostNewerText ==
    <<"Newer", "TooLost", "files", "in", "raw/", "not", "being", "processed">>

UmbrellaText == <<"No", "recent", "files", "detected", "in", "any", "zone">>

\* Mutant: a lag equal to the tolerance is reported too.
lag_at_least_tolerance(lag) == lag >= cleaner_lag_tolerance_days

\* if lag > self.cleaner_lag_tolerance_days
lag_exceeds_tolerance(lag) == lag > cleaner_lag_tolerance_days

\* The walk over the zones; previous_zone is "" while no zone with data was met.
RECURSIVE detect_zone_loop(_, _, _, _, _)
detect_zone_loop(fr, i, previous_zone, previous_days, found) ==
    IF i > Len(zone_order) THEN found
    ELSE LET zone_name == zone_order[i]
             info == fr[zone_name]
             has_data == Truthy(info.latest_date)
             zone_days == info.days_old
         IN IF ~has_data
            THEN detect_zone_loop(fr, i + 1, previous_zone, previous_days,
                    IF /\ previous_zone # ""
                       /\ previous_days # None
                       /\ previous_days <= cleaner_lag_tolerance_days
                    THEN Append(found, NoDataText(zone_name, previous_zone))
                    ELSE found)
            ELSE detect_zone_loop(fr, i + 1, zone_name, zone_days,
                    IF /\ previous_zone # ""
                       /\ previous_days # None
                       /\ zone_days # None
                       /\ lag_exceeds_tolerance(zone_days - previous_days)
                    THEN Append(found, LagText(zone_name, zone_days - previous_days, previous_zone))
                    ELSE found)

SetMax(S) == CHOOSE m \in S : \A x \in S : x <= m

\* The check of the raw/toolost layout; tr: [direct, streams: the modification
\* times of the .json files of raw/toolost and of raw/toolost/streams].
toolost_structure(fr, tr) ==
    LET curated_days == fr["curated"].days_old
        stale == curated_days = None \/ curated_days > recency_warning_days
    IN IF tr.direct # {} /\ tr.streams = {}
       THEN IF stale THEN <<TooLostDirectText>> ELSE <<>>
       ELSE IF tr.streams # {} /\ tr.direct # {}
       THEN IF SetMax(tr.direct) > SetMax(tr.streams) /\ stale
            THEN <<TooLostNewerText>> ELSE <<>>
       ELSE <<>>

\* Mutant: the umbrella finding as soon as one zone has no data.
umbrella_any_zone_empty(fr) ==
    IF \E z \in DOMAIN fr : ~Truthy(fr[z].latest_date) THEN <<UmbrellaText>> ELSE <<>>

umbrella(fr) ==
    IF ~(\E z \in DOMAIN fr : Truthy(fr[z].latest_date)) THEN <<UmbrellaText>> ELSE <<>>

detect_pipeline_bottlenecks(s, fr, tr) ==
    detect_zone_loop(fr, 1, "", None, <<>>)
        \o (IF s = "toolost" THEN toolost_structure(fr, tr) ELSE <<>>)
        \o umbrella(fr)

\* Layouts of raw/toolost; a file is given by its modification time.
ToolostLayouts ==
    {[direct |-> {}, streams |-> {}], [direct |-> {2}, streams |-> {}],
     [direct |-> {2}, streams |-> {1}], [direct |-> {1}, streams |-> {2}],
     [direct |-> {}, streams |-> {1}]}

(***************************************************************************)
(* get_recommendations                                                     *)
(***************************************************************************)
Action(type, s, reason, priority) ==
    [type |-> type, service |-> s, reason |-> reason, priority |-> priority]

\* Mutant: fresh data suppresses the refresh of an expired account too.
multi_account_fresh_suppresses(s, data_is_fresh, ch) ==
    IF Get(ch, "severity", "normal") \in {"high", "warning"} /\ ~data_is_fresh
    THEN [cookie_health |-> ch,
          recommendations |->
             << <<"Refresh", s, "cookies", "(one", "or", "more", "accounts", "expired)">> >>,
          auto_actions |-> <<Action("cookie_refresh", s, "multi_account_expired", "high")>>]
    ELSE [cookie_health |-> ch, recommendations |-> <<>>, auto_actions |-> <<>>]

\* The branch of a multi-account credential set (status "multiple").
multi_account_reconciliation(s, data_is_fresh, ch) ==
    LET cookie_severity == Get(ch, "severity", "normal")
    IN IF cookie_severity = "high"
       THEN [cookie_health |-> ch,
             recommendations |->
                << <<"Refresh", s, "cookies", "(one", "or", "more", "accounts", "expired)">> >>,
             auto_actions |-> <<Action("cookie_refresh", s, "multi_account_expired", "high")>>]
       ELSE IF cookie_severity = "warning" /\ ~data_is_fresh
       THEN [cookie_health |-> ch,
             recommendations |->
                << <<"Verify", s, "cookies", "(one", "or", "more", "accounts", "expiring", "soon)">> >>,
             auto_actions |-> <<Action("cookie_refresh", s, "multi_account_expiring", "medium")>>]
       ELSE [cookie_health |-> ch, recommendations |-> <<>>, auto_actions |-> <<>>]

\* The branch on the credential status.  It returns the recommendations and the
\* actions it adds, and the credential record as it leaves it.
cookie_reconciliation(s, recent_days, data_is_fresh, ch) ==
    LET cookie_status == ch.status
        cookie_severity == Get(ch, "severity", "normal")
        unchanged == [cookie_health |-> ch, recommendations |-> <<>>, auto_actions |-> <<>>]
    IN IF s = "metaads" /\ cookie_status = "N/A" THEN unchanged
       ELSE IF cookie_status = "missing"
       THEN IF data_is_fresh
            THEN [cookie_health |->
                     [severity |-> "low",
                      message |-> "Cookie file not detected, but recent data updates confirm extractor access"]
                         @@ ch,
                  recommendations |-> <<>>, auto_actions |-> <<>>]
            ELSE [cookie_health |-> ch,
                  recommendations |-> << <<"Run", "manual", "authentication", "for", s>> >>,
                  auto_actions |-> <<Action("cookie_refresh", s, "missing_cookies", "high")>>]
       ELSE IF cookie_status = "expired"
       THEN LET days_expired == ch.days_old - ch.max_age
            IN IF data_is_fresh /\ days_expired <= recency_critical_days
               THEN [cookie_health |->
                        [severity |-> "low",
                         message |-> "Cookie timestamp older than policy, but data landed "
                                        \o ToString(recent_days) \o " day(s) ago"]
                            @@ ch,
                     recommendations |-> <<>>, auto_actions |-> <<>>]
               ELSE [cookie_health |-> ch,
                     recommendations |->
                        << <<"Refresh", s, "cookies", "(expired", ToString(days_expired), "days", "ago)">> >>,
                     auto_actions |->
                        <<Action("cookie_refresh", s,
                                 "expired_" \o ToString(days_expired) \o "_days_ago",
                                 IF days_expired > 7 THEN "critical" ELSE "high")>>]
       ELSE IF cookie_status = "multiple"
       THEN multi_account_reconciliation(s, data_is_fresh, ch)
       ELSE IF cookie_status = "valid" /\ Get(ch, "expires_in", 0) <= 3
       THEN IF cookie_severity # "low"
            THEN [cookie_health |-> ch,
                  recommendations |->
                     << <<"Consider", "refreshing", s, "cookies", "(expires", "in",
                          ToString(ch.expires_in), "days)">> >>,
                  auto_actions |->
                     <<Action("cookie_refresh", s,
                              "expiring_soon_" \o ToString(ch.expires_in) \o "_days", "medium")>>]
            ELSE unchanged
       ELSE unchanged

\* Mutant: the extractor is run from the seventh day on.
staleness_recommendations_from_a_week(s, recent_summary) ==
    LET recent_days == recent_summary.days_old
    IN IF recent_days # None /\ recent_days >= recency_critical_days
       THEN [recommendations |->
                << <<"URGENT:", "Run", s, "extractor", "(last", "data:", ToString(recent_days),
                     "days", "ago", "in", recent_summary.zone \o ")">> >>,
             auto_actions |->
                <<Action("run_extractor", s, "stale_data_" \o ToString(recent_days) \o "_days", "high")>>]
       ELSE IF recent_days # None /\ recent_days > recency_warning_days
       THEN [recommendations |->
                << <<"Plan", "extractor", "run", "for", s, "(last", "data", ToString(recent_days),
                     "days", "ago", "in", recent_summary.zone \o ")">> >>,
             auto_actions |-> <<>>]
       ELSE [recommendations |-> <<>>, auto_actions |-> <<>>]

\* The branch on the age of the most recent data.
staleness_recommendations(s, recent_summary) ==
    LET recent_days == recent_summary.days_old
    IN IF recent_days # None /\ recent_days > recency_critical_days
       THEN [recommendations |->
                << <<"URGENT:", "Run", s, "extractor", "(last", "data:", ToString(recent_days),
                     "days", "ago", "in", recent_summary.zone \o ")">> >>,
             auto_actions |->
                <<Action("run_extractor", s, "stale_data_" \o ToString(recent_days) \o "_days", "high")>>]
       ELSE IF recent_days # None /\ recent_days > recency_warning_days
       THEN [recommendations |->
                << <<"Plan", "extractor", "run", "for", s, "(last", "data", ToString(recent_days),
                     "days", "ago", "in", recent_summary.zone \o ")">> >>,
             auto_actions |-> <<>>]
       ELSE [recommendations |-> <<>>, auto_actions |-> <<>>]

\* filtered_bottlenecks
RECURSIVE filter_bottlenecks(_, _)
filter_bottlenecks(found, data_is_fresh) ==
    IF found = <<>> THEN <<>>
    ELSE LET entry == Head(found)
             rest == filter_bottlenecks(Tail(found), data_is_fresh)
         IN IF entry = UmbrellaText THEN <<entry>> \o rest
            ELSE IF data_is_fresh /\ InText(<<"No", "data", "in">>, entry) THEN rest
            ELSE <<entry>> \o rest

\* The routing of one surviving finding.
route_bottleneck(s, issue) ==
    IF InText(TooLostDirectText, issue)
    THEN [recommendations |->
             << <<"Align", "TooLost", "raw", "directory", "structure", "with", "cleaner",
                  "expectations">> >>,
          auto_actions |->
             <<Action("fix_directory_mismatch", "toolost", "directory_structure_issue", "critical")>>]
    ELSE IF InText(UmbrellaText, issue)
    THEN [recommendations |->
             << <<"Investigate", s, "pipeline:", "no", "recent", "files", "in", "any", "zone">> >>,
          auto_actions |-> <<>>]
    ELSE IF InText(<<"zone", "is">>, issue) \/ InText(<<"No", "data", "in">>, issue)
    THEN [recommendations |-> <<issue>>,
          auto_actions |-> <<Action("run_cleaners", s, "pipeline_blocked", "medium")>>]
    ELSE [recommendations |-> <<>>, auto_actions |-> <<>>]

RECURSIVE route_bottlenecks(_, _)
route_bottlenecks(s, issues) ==
    IF issues = <<>> THEN [recommendations |-> <<>>, auto_actions |-> <<>>]
    ELSE LET first == route_bottleneck(s, Head(issues))
             rest == route_bottlenecks(s, Tail(issues))
         IN [recommendations |-> first.recommendations \o rest.recommendations,
             auto_actions |-> first.auto_actions \o rest.auto_actions]

\* Mutant: the threshold compared strictly.
data_is_fresh_strict(fr) ==
    LET recent_days == _get_recent_activity_summary(fr).days_old
    IN recent_days # None /\ recent_days < recency_warning_days

\* Mutant: an age of 0 days taken for an absent age.
data_is_fresh_zero_is_absent(fr) ==
    LET recent_days == _get_recent_activity_summary(fr).days_old
    IN recent_days # None /\ recent_days # 0 /\ recent_days <= recency_warning_days

data_is_fresh(fr) ==
    LET recent_days == _get_recent_activity_summary(fr).days_old
    IN recent_days # None /\ recent_days <= recency_warning_days

get_recommendations(s, fr, ch, found) ==
    LET recent_summary == _get_recent_activity_summary(fr)
        fresh == data_is_fresh(fr)
        cookie == cookie_reconciliation(s, recent_summary.days_old, fresh, ch)
        stale == staleness_recommendations(s, recent_summary)
        routed == route_bottlenecks(s, filter_bottlenecks(found, fresh))
    IN [cookie_health |-> cookie.cookie_health,
        recommendations |-> cookie.recommendations \o stale.recommendations \o routed.recommendations,
        auto_actions |-> cookie.auto_actions \o stale.auto_actions \o routed.auto_actions]

(***************************************************************************)
(* _calculate_weighted_health_score                                        *)
(***************************************************************************)
\* Mutant: the multipliers given to the tiers in the opposite order.
priority_multiplier_inverted(priority) ==
    CASE priority = ServicePriority.CRITICAL -> 8
      [] priority = ServicePriority.HIGH -> 10
      [] priority = ServicePriority.MEDIUM -> 12
      [] priority = ServicePriority.LOW -> 15

\* priority_multiplier, in tenths.
priority_multiplier(priority) ==
    CASE priority = ServicePriority.CRITICAL -> 15
      [] priority = ServicePriority.HIGH -> 12
      [] priority = ServicePriority.MEDIUM -> 10
      [] priority = ServicePriority.LOW -> 8

\* int(points * multiplier): the product of a non-negative number, truncated.
weighted(points, s) == (points * priority_multiplier(service_priority(s))) \div 10

\* Mutant: the band above 14 days deducts the points of the no-data case.
freshness_deduction_weak_last_band(s, recent_days) ==
    IF recent_days # None
    THEN IF recent_days > 14 THEN weighted(20, s)
         ELSE IF recent_days > recency_critical_days THEN weighted(30, s)
         ELSE IF recent_days > recency_warning_days THEN weighted(15, s)
         ELSE IF recent_days > cleaner_lag_tolerance_days THEN weighted(5, s)
         ELSE 0
    ELSE weighted(20, s)

freshness_deduction(s, recent_days) ==
    IF recent_days # None
    THEN IF recent_days > 14 THEN weighted(40, s)
         ELSE IF recent_days > recency_critical_days THEN weighted(30, s)
         ELSE IF recent_days > recency_warning_days THEN weighted(15, s)
         ELSE IF recent_days > cleaner_lag_tolerance_days THEN weighted(5, s)
         ELSE 0
    ELSE weighted(20, s)

\* Mutant: the missing-credential branch tested before the severity.
cookie_deduction_missing_first(s, ch) ==
    IF s # "metaads"
    THEN LET severity == Get(ch, "severity", "normal")
         IN IF Get(ch, "status", "") = "missing" THEN weighted(40, s)
            ELSE IF severity = "high" THEN weighted(30, s)
            ELSE IF severity = "warning" THEN weighted(15, s)
            ELSE 0
    ELSE 0

cookie_deduction(s, ch) ==
    IF s # "metaads"
    THEN LET severity == Get(ch, "severity", "normal")
         IN IF severity = "high" THEN weighted(30, s)
            ELSE IF severity = "warning" THEN weighted(15, s)
            ELSE IF Get(ch, "status", "") = "missing" /\ severity = "normal" THEN weighted(40, s)
            ELSE 0
    ELSE 0

effective_bottlenecks(found) ==
    SelectSeq(found, LAMBDA b : \/ InText(<<"No", "data", "in">>, b)
                                \/ InText(<<"zone", "is">>, b)
                                \/ InText(<<"No", "recent", "files">>, b))

toolost_deduction(s, recent_days) ==
    IF s = "toolost" /\ recent_days # None /\ recent_days > 7 THEN 20 ELSE 0

\* base_score before the clamp of the return statement.
base_score(s, fr, ch, found) ==
    LET recent_days == _get_recent_activity_summary(fr).days_old
    IN 100 - freshness_deduction(s, recent_days)
           - cookie_deduction(s, ch)
           - weighted(Len(effective_bottlenecks(found)) * 10, s)
           - toolost_deduction(s, recent_days)

Min(a, b) == IF a < b THEN a ELSE b

Max(a, b) == IF a > b THEN a ELSE b

\* Mutant: the clamp without its lower bound.
clamp_upper_only(score) == Min(100, score)

\* max(0, min(100, base_score))
clamp(score) == Max(0, Min(100, score))

_calculate_weighted_health_score(s, fr, ch, found) == clamp(base_score(s, fr, ch, found))

(***************************************************************************)
(* The per-service check of generate_report                                *)
(***************************************************************************)
NoCookieHealth == [status |-> "unchecked"]

\* The remediation executor before any call.
ExecIdle ==
    /\ cookie_manager = FALSE
    /\ notifier = FALSE
    /\ actions = <<>>
    /\ sorted_actions = <<>>
    /\ executed_actions = <<>>
    /\ remediation_log = <<>>
    /\ log_at_entry = <<>>
    /\ collaborator_calls = <<>>

EmptyReport == [services |-> <<>>, overall_status |-> "HEALTHY", remediation_actions |-> <<>>]

\* No report under way.
ReportIdle ==
    /\ monitor_services = services
    /\ enable_auto_remediation = FALSE
    /\ report = EmptyReport

\* main is not running.
MainIdle ==
    /\ args_service = ""
    /\ exit_code = None

\* A monitor built on the default zone directories of /proj, and an empty disk.
NoOverrides == [v \in {env_var(z) : z \in Range(zone_labels)} |-> <<>>]

ZonesIdle ==
    /\ project_root = <<"/", "proj">>
    /\ environ = NoOverrides
    /\ zone_dirs = resolve_zone_dirs(project_root, environ)
    /\ disk = [dirs |-> {}, files |-> {}]
    /\ latest_files = [z \in Range(zones) |-> ""]

\* raw/toolost is empty and _fix_toolost_directory has not been called.
FixIdle ==
    /\ os_name = "posix"
    /\ raw_dir = {}
    /\ raw_streams_dir = [kind |-> "absent", entries |-> {}]
    /\ pending = {}
    /\ moved_count = 0
    /\ fix_returns = <<>>
    /\ moved_counts = <<>>
    /\ entered_with = <<>>

\* _run_cleaners is not running.
CleanersIdle ==
    /\ cleaners_fs = [dir |-> FALSE, scripts |-> <<"absent", "absent", "absent">>]
    /\ cleaner_stage = 1
    /\ cleaner_runs = <<>>
    /\ success = TRUE

Init ==
    /\ pc = "start"
    /\ service \in Range(services)
    /\ zone_files = NoZoneDirs
    /\ cookie_files = [dir |-> FALSE, files |-> <<>>]
    /\ toolost_raw = [direct |-> {}, streams |-> {}]
    /\ freshness = check_zone_freshness(zone_files)
    /\ cookie_health = NoCookieHealth
    /\ bottlenecks = <<>>
    /\ recommendations = <<>>
    /\ auto_actions = <<>>
    /\ health_score = None
    /\ score_runs = <<>>
    /\ ExecIdle
    /\ ReportIdle
    /\ MainIdle
    /\ CleanersIdle
    /\ ZonesIdle
    /\ FixIdle

\* freshness = self.check_zone_freshness(service); the modification time of a
\* file that was enumerated is read with stat(), which raises when the file
\* is gone by then.
ScanZones ==
    /\ pc = "start"
    /\ \E zf \in ZoneFiles :
        /\ zone_files' = zf
        /\ freshness' = check_zone_freshness(zf)
        /\ pc' = "scanned"
    /\ UNCHANGED <<service, cookie_files, toolost_raw, cookie_health, bottlenecks,
                   recommendations, auto_actions, health_score, score_runs>>
    /\ UNCHANGED <<exec_vars, report_vars, main_vars, cleaner_vars, zone_vars, fix_vars>>

ScanZonesRaises ==
    /\ pc = "start"
    /\ \E zf \in ZoneFiles :
        /\ \E z \in Range(zones) : zf[z].age # None
        /\ zone_files' = zf
        /\ pc' = "raised"
    /\ UNCHANGED <<service, cookie_files, toolost_raw, freshness, cookie_health, bottlenecks,
                   recommendations, auto_actions, health_score, score_runs>>
    /\ UNCHANGED <<exec_vars, report_vars, main_vars, cleaner_vars, zone_vars, fix_vars>>

\* cookie_health = self.check_cookie_health(service)
CheckCookies ==
    /\ pc = "scanned"
    /\ \E cf \in CookieFiles(service) :
        /\ cookie_files' = cf
        /\ cookie_health' = check_cookie_health(service, cf)
    /\ pc' = "cookie_checked"
    /\ UNCHANGED <<service, zone_files, toolost_raw, freshness, bottlenecks,
                   recommendations, auto_actions, health_score, score_runs>>
    /\ UNCHANGED <<exec_vars, report_vars, main_vars, cleaner_vars, zone_vars, fix_vars>>

\* bottlenecks = self.detect_pipeline_bottlenecks(service, freshness)
DetectBottlenecks ==
    /\ pc = "cookie_checked"
    /\ \E tr \in (IF service = "toolost" THEN ToolostLayouts ELSE {toolost_raw}) :
        \* a .json file under raw/toolost is a file of the raw zone
        /\ tr.direct \cup tr.streams # {} => Truthy(freshness["raw"].latest_date)
        /\ toolost_raw' = tr
        /\ bottlenecks' = detect_pipeline_bottlenecks(service, freshness, tr)
    /\ pc' = "detected"
    /\ UNCHANGED <<service, zone_files, cookie_files, freshness, cookie_health,
                   recommendations, auto_actions, health_score, score_runs>>
    /\ UNCHANGED <<exec_vars, report_vars, main_vars, cleaner_vars, zone_vars, fix_vars>>

\* recommendations, auto_actions = self.get_recommendations(...)
Recommend ==
    /\ pc = "detected"
    /\ LET r == get_recommendations(service, freshness, cookie_health, bottlenecks)
       IN /\ cookie_health' = r.cookie_health
          /\ recommendations' = r.recommendations
          /\ auto_actions' = r.auto_actions
    /\ pc' = "recommended"
    /\ UNCHANGED <<service, zone_files, cookie_files, toolost_raw, freshness, bottlenecks,
                   health_score, score_runs>>
    /\ UNCHANGED <<exec_vars, report_vars, main_vars, cleaner_vars, zone_vars, fix_vars>>

\* Mutant: the score is taken on the credential record as the credential check
\* returned it, before get_recommendations.
Score_before_reconciliation ==
    /\ pc = "recommended"
    /\ health_score' = _calculate_weighted_health_score(service, freshness,
                            check_cookie_health(service, cookie_files), bottlenecks)
    /\ pc' = "scored"
    /\ UNCHANGED <<service, zone_files, cookie_files, toolost_raw, freshness, cookie_health,
                   bottlenecks, recommendations, auto_actions, score_runs>>
    /\ UNCHANGED <<exec_vars, report_vars, main_vars, cleaner_vars, zone_vars, fix_vars>>

\* health_score = self._calculate_weighted_health_score(...)
Score ==
    /\ pc = "recommended"
    /\ health_score' = _calculate_weighted_health_score(service, freshness, cookie_health, bottlenecks)
    /\ pc' = "scored"
    /\ UNCHANGED <<service, zone_files, cookie_files, toolost_raw, freshness, cookie_health,
                   bottlenecks, recommendations, auto_actions, score_runs>>
    /\ UNCHANGED <<exec_vars, report_vars, main_vars, cleaner_vars, zone_vars, fix_vars>>

Next ==
    \/ ScanZones
    \/ ScanZonesRaises
    \/ CheckCookies
    \/ DetectBottlenecks
    \/ Recommend
    \/ Score

Spec == Init /\ [][Next]_vars

(***************************************************************************)
(* Properties of the per-service check                                     *)
(***************************************************************************)
AfterDetect == pc \in {"detected", "recommended", "scored"}

AfterRecommend == pc \in {"recommended", "scored"}

\* The service has data at most 3 days old in at least one zone.
HasFreshData ==
    \E z \in Range(zones) : freshness[z].days_old # None /\ freshness[z].days_old <= 3

NoZoneHasData == \A z \in Range(zones) : freshness[z].latest_date = None

CredentialActions == SelectSeq(auto_actions, LAMBDA a : a.type = "cookie_refresh")

NoUrgentCredentialAction ==
    \A i \in DOMAIN CredentialActions : CredentialActions[i].priority \notin {"high", "critical"}

IsUmbrella(b) == b = <<"No", "recent", "files", "detected", "in", "any", "zone">>

\* "No data in <zone> zone ..."
IsNoDataInZone(b) == Len(b) >= 5 /\ SubSeq(b, 1, 3) = <<"No", "data", "in">> /\ b[5] = "zone"

\* C7: the umbrella finding is there, once, exactly when no zone has data,
\* and never beside a finding of one zone without data.
C7_UmbrellaIffNoData ==
    AfterDetect =>
        /\ (\E i \in DOMAIN bottlenecks : IsUmbrella(bottlenecks[i])) <=> NoZoneHasData
        /\ Cardinality({i \in DOMAIN bottlenecks : IsUmbrella(bottlenecks[i])}) <= 1
        /\ ~(/\ \E i \in DOMAIN bottlenecks : IsUmbrella(bottlenecks[i])
             /\ \E i \in DOMAIN bottlenecks : IsNoDataInZone(bottlenecks[i]))

\* The zone directories exist and hold no file of the service.
C7_Witness ==
    /\ pc = "detected"
    /\ \A z \in Range(zones) : freshness[z].exists
    /\ NoZoneHasData
    /\ bottlenecks = <<UmbrellaText>>

\* "<zone> zone is N days behind <previous zone>"
IsLagOf(b, zone_name) ==
    Len(b) = 7 /\ b[1] = zone_name /\ SubSeq(b, 2, 3) = <<"zone", "is">> /\ b[6] = "behind"

\* The zones before the i-th that have data.
EarlierWithData(i) == {j \in 1..(i - 1) : freshness[zone_order[j]].days_old # None}

\* C11: a zone with data has a lag finding exactly when its age exceeds the
\* age of the nearest earlier zone with data by more than the tolerance of 1
\* day; the finding names that zone and the difference of the ages; a zone
\* without data, or with no earlier zone with data, has no lag finding.
C11_LagFindingIffBeyondTolerance ==
    AfterDetect =>
        \A i \in DOMAIN zone_order :
            LET zone_name == zone_order[i]
                days == freshness[zone_name].days_old
                lags == {k \in DOMAIN bottlenecks : IsLagOf(bottlenecks[k], zone_name)}
            IN IF days = None \/ EarlierWithData(i) = {}
               THEN lags = {}
               ELSE LET j == SetMax(EarlierWithData(i))
                        previous == zone_order[j]
                        lag == days - freshness[previous].days_old
                    IN IF lag > 1
                       THEN /\ Cardinality(lags) = 1
                            /\ \A k \in lags : bottlenecks[k] = LagText(zone_name, lag, previous)
                       ELSE lags = {}

\* Landing 1 day old, raw and staging empty, curated 8 days old: curated is
\* 7 days behind landing.
C11_Witness ==
    /\ pc = "detected"
    /\ freshness["landing"].days_old = 1
    /\ freshness["raw"].days_old = None
    /\ freshness["staging"].days_old = None
    /\ freshness["curated"].days_old = 8
    /\ \E k \in DOMAIN bottlenecks :
          bottlenecks[k] = <<"curated", "zone", "is", "7", "days", "behind", "landing">>

\* The ages of the account files found, whatever their order.
AccountAges == Range(cookie_files.files)

\* C12: for a multi-account credential set with at least one file, the
\* aggregate severity is high when an account is expired, else warning when
\* a valid account has at most 3 days left, else normal; it is a function of
\* the set of the accounts' ages, so it does not depend on their order.
C12_AggregateSeverityIsWorstAccount ==
    (pc \in {"cookie_checked", "detected"} /\ wildcard_pattern(service)
        /\ cookie_files.dir /\ cookie_files.files # <<>>) =>
        /\ cookie_health.status = "multiple"
        /\ Len(cookie_health.cookies) = Len(cookie_files.files)
        /\ cookie_health.severity =
              IF \E a \in AccountAges : a > expiry_days(service) THEN "high"
              ELSE IF \E a \in AccountAges : expiry_days(service) - a <= 3 THEN "warning"
              ELSE "normal"

\* An account about to expire enumerated before an expired one.
C12_Witness ==
    /\ pc = "cookie_checked"
    /\ wildcard_pattern(service)
    /\ Len(cookie_files.files) = 2
    /\ cookie_health.cookies[1].status = "valid"
    /\ cookie_health.cookies[1].expires_in = 3
    /\ cookie_health.cookies[2].status = "expired"
    /\ cookie_health.severity = "high"

\* C13: a multi-account credential set with an expired account (aggregate
\* severity high) gives exactly one cookie_refresh action for the service, of
\* priority high, whatever the age of the data; the record is left as it was.
C13_ExpiredAccountAlwaysRefreshed ==
    (/\ AfterRecommend
     /\ wildcard_pattern(service)
     /\ \E a \in AccountAges : a > expiry_days(service)) =>
        /\ cookie_health.status = "multiple"
        /\ cookie_health.severity = "high"
        /\ CredentialActions
              = <<Action("cookie_refresh", service, "multi_account_expired", "high")>>

\* One valid and one expired account, and data of today in every zone.
C13_Witness ==
    /\ pc = "recommended"
    /\ wildcard_pattern(service)
    /\ Len(cookie_files.files) = 2
    /\ cookie_health.cookies[1].status = "valid"
    /\ cookie_health.cookies[1].expires_in = 4
    /\ cookie_health.cookies[2].status = "expired"
    /\ \A z \in Range(zones) : freshness[z].days_old = 0
    /\ Len(CredentialActions) = 1
    /\ CredentialActions[1].priority = "high"

\* The credential record has been computed.
CookieChecked == pc \in {"cookie_checked", "detected", "recommended", "scored"}

\* The records of the accounts of a multi-account record.
AccountRecords == IF cookie_health.status = "multiple" THEN cookie_health.cookies ELSE <<>>

\* C14, as claimed: in every credential record, before and after the
\* reconciliation, severity high implies status expired or missing, and
\* severity none is that of metaads only.
C14_Original_HighImpliesExpiredOrMissing ==
    CookieChecked =>
        /\ cookie_health.severity = "high" => cookie_health.status \in {"expired", "missing"}
        /\ cookie_health.severity = "none" => service = "metaads"

\* C14, amended: severity high implies status expired or missing, or the
\* aggregate status multiple with an expired account; the records of the
\* accounts are high exactly when expired; severity none is that of metaads
\* only.
C14_HighImpliesExpiredMissingOrAggregate ==
    CookieChecked =>
        /\ cookie_health.severity = "high" =>
              \/ cookie_health.status \in {"expired", "missing"}
              \/ /\ cookie_health.status = "multiple"
                 /\ \E i \in DOMAIN cookie_health.cookies :
                       cookie_health.cookies[i].status = "expired"
        /\ \A i \in DOMAIN AccountRecords :
              AccountRecords[i].severity = "high" <=> AccountRecords[i].status = "expired"
        /\ cookie_health.severity = "none" <=> service = "metaads"

\* The aggregate record of two accounts, one of them expired, after the
\* reconciliation: status multiple, severity high.
C14_Witness ==
    /\ pc = "recommended"
    /\ cookie_health.status = "multiple"
    /\ cookie_health.severity = "high"
    /\ Len(cookie_health.cookies) = 2
    /\ cookie_health.cookies[1].status = "valid"
    /\ cookie_health.cookies[2].status = "expired"

\* The credential artifact of a service that has one is absent.
ArtifactMissing == service # "metaads" /\ cookie_files.files = <<>>

C10_MissingCookieWithDataOfToday ==
    /\ (pc \in {"cookie_checked", "detected"} /\ ArtifactMissing)
          => (cookie_health.status = "missing" /\ cookie_health.severity = "high")
    /\ (/\ AfterRecommend
        /\ ArtifactMissing
        /\ \E z \in Range(zones) : freshness[z].days_old = 0)
          => /\ cookie_health.status = "missing"
             /\ cookie_health.severity = "low"
             /\ CredentialActions = <<>>

C10_Witness ==
    /\ pc = "recommended"
    /\ ArtifactMissing
    /\ freshness["curated"].days_old = 0
    /\ \A z \in Range(zones) \ {"curated"} : freshness[z].days_old = None
    /\ cookie_health.severity = "low"
    /\ CredentialActions = <<>>

\* The service has one credential artifact path: no wildcard, and not the API
\* tokens of metaads.
SinglePath == service # "metaads" /\ ~wildcard_pattern(service)

\* C21: for a service with one credential artifact path, check_cookie_health
\* returns status missing with severity high when the artifact is absent; when
\* it is present the status is expired iff its age exceeds the maximum age of
\* the service (7 days for toolost, 30 for the others), an age equal to the
\* maximum being valid with 0 days remaining, and the severity is high iff
\* expired, else normal.
C21_SingleCookieStatus ==
    (pc \in {"cookie_checked", "detected"} /\ SinglePath) =>
        IF cookie_files.files = <<>>
        THEN cookie_health.status = "missing" /\ cookie_health.severity = "high"
        ELSE LET age == cookie_files.files[1]
                 maximum == IF service = "toolost" THEN 7 ELSE 30
             IN /\ cookie_health.status \in {"expired", "valid"}
                /\ cookie_health.status = "expired" <=> age > maximum
                /\ cookie_health.severity = "high" <=> cookie_health.status = "expired"
                /\ cookie_health.severity \in {"high", "normal"}
                /\ cookie_health.days_old = age
                /\ cookie_health.status = "valid" => cookie_health.expires_in = maximum - age
                /\ cookie_health.status = "expired" => cookie_health.expires_in = 0

\* The toolost artifact on its last day: 7 days old, valid, 0 days remaining.
C21_Witness ==
    /\ pc = "cookie_checked"
    /\ service = "toolost"
    /\ cookie_files.files = <<7>>
    /\ cookie_health.status = "valid"
    /\ cookie_health.expires_in = 0
    /\ cookie_health.severity = "normal"

\* The findings "No data in <zone_name> zone despite recent updates in ...".
NoDataFindings(zone_name) ==
    {k \in DOMAIN bottlenecks :
        /\ Len(bottlenecks[k]) = 10
        /\ SubSeq(bottlenecks[k], 1, 9)
              = <<"No", "data", "in", zone_name, "zone", "despite", "recent", "updates", "in">>}

\* C24, as claimed: a zone X without data has the finding "No data in X zone
\* despite recent updates in Y" exactly when the zone immediately before X
\* in the order landing, raw, staging, curated has data at most 1 day old, Y
\* being that zone; there is no such finding for X when the zone immediately
\* before it has no data.
C24_NoDataFindingIffPredecessorRecent ==
    AfterDetect =>
        \A i \in DOMAIN zone_order :
            LET X == zone_order[i]
                found == NoDataFindings(X)
            IN IF /\ freshness[X].days_old = None
                  /\ i > 1
                  /\ freshness[zone_order[i - 1]].days_old # None
                  /\ freshness[zone_order[i - 1]].days_old <= 1
               THEN /\ Cardinality(found) = 1
                    /\ \A k \in found : bottlenecks[k][10] = zone_order[i - 1]
               ELSE found = {}

\* The findings that pass the fresh-data filter of get_recommendations.
SurvivingFindings ==
    SelectSeq(bottlenecks, LAMBDA b : IsUmbrella(b) \/ ~(HasFreshData /\ IsNoDataInZone(b)))

\* The structural findings of the detector, those of the raw/toolost layout.
IsStructural(b) ==
    \/ b = <<"TooLost", "files", "in", "raw/", "but", "cleaner", "expects", "raw/streams/">>
    \/ b = <<"Newer", "TooLost", "files", "in", "raw/", "not", "being", "processed">>

IsLagFinding(b) == Len(b) = 7 /\ SubSeq(b, 2, 3) = <<"zone", "is">> /\ b[6] = "behind"

ActionsOfType(type) == SelectSeq(auto_actions, LAMBDA a : a.type = type)

\* C25, as claimed: every finding that survives the fresh-data filter is
\* routed to exactly one of: a fix_directory_mismatch action of priority
\* critical for a structural finding, an investigation recommendation without
\* action for the umbrella finding, a run_cleaners action of priority medium
\* for a lag or no-data-in-zone finding; no surviving finding is left without
\* a recommendation.
C25_EverySurvivingFindingRouted ==
    AfterRecommend =>
        /\ Len(ActionsOfType("fix_directory_mismatch"))
              = Len(SelectSeq(SurvivingFindings, IsStructural))
        /\ \A i \in DOMAIN ActionsOfType("fix_directory_mismatch") :
              ActionsOfType("fix_directory_mismatch")[i].priority = "critical"
        /\ Len(ActionsOfType("run_cleaners"))
              = Len(SelectSeq(SurvivingFindings, LAMBDA b : IsLagFinding(b) \/ IsNoDataInZone(b)))
        /\ \A i \in DOMAIN ActionsOfType("run_cleaners") :
              ActionsOfType("run_cleaners")[i].priority = "medium"
        /\ Len(SelectSeq(recommendations, LAMBDA r : r[1] = "Investigate"))
              = Len(SelectSeq(SurvivingFindings, IsUmbrella))
        /\ Len(SelectSeq(recommendations,
                         LAMBDA r : r[1] \in {"Investigate", "Align"} \/ IsLagFinding(r)
                                       \/ IsNoDataInZone(r)))
              = Len(SurvivingFindings)



\* A credential artifact written today.
ValidCredential == _check_single_cookie(0, service)

\* C27: the score of a service is computed after get_recommendations has
\* reconciled its credential record: a service whose missing or expired
\* credential was downgraded to severity low has the score of the same service
\* with a valid credential and the same freshness and bottlenecks.
C27_DowngradedCredentialCostsNothing ==
    (pc = "scored" /\ Get(cookie_health, "severity", "normal") = "low") =>
        /\ Get(check_cookie_health(service, cookie_files), "severity", "normal") = "high"
        /\ health_score = _calculate_weighted_health_score(service, freshness, ValidCredential, bottlenecks)

\* A service without credential artifact and with data of today scores 100.
C27_Witness ==
    /\ pc = "scored"
    /\ service = "spotify"
    /\ check_cookie_health(service, cookie_files).status = "missing"
    /\ cookie_health.severity = "low"
    /\ \A z \in Range(zones) : freshness[z].days_old = 0
    /\ health_score = 100

(***************************************************************************)
(* The recommendations and the score on data of every age                  *)
(***************************************************************************)
\* Zones whose data, where there is data, is d days old: the landing zone
\* alone, the landing and the raw zone, or every zone; and zones without data.
AgedZoneFiles ==
    {[z \in Range(zones) |-> [exists |-> TRUE, age |-> IF z \in filled THEN d ELSE None]] :
        d \in 0..MaxAge,
        filled \in {{"landing"}, {"landing", "raw"}, {"landing", "raw", "staging", "curated"}}}
      \cup {[z \in Range(zones) |-> [exists |-> TRUE, age |-> None]]}

\* The check of a service in generate_report, at the call of
\* get_recommendations, on zones of every age.
InitAged ==
    /\ pc = "detected"
    /\ service \in Range(services)
    /\ zone_files \in AgedZoneFiles
    /\ cookie_files \in CookieFiles(service)
    /\ toolost_raw = [direct |-> {}, streams |-> {}]
    /\ freshness = check_zone_freshness(zone_files)
    /\ cookie_health = check_cookie_health(service, cookie_files)
    /\ bottlenecks = detect_pipeline_bottlenecks(service, freshness, toolost_raw)
    /\ recommendations = <<>>
    /\ auto_actions = <<>>
    /\ health_score = None
    /\ score_runs = <<>>
    /\ ExecIdle
    /\ ReportIdle
    /\ MainIdle
    /\ CleanersIdle
    /\ ZonesIdle
    /\ FixIdle

NextAged ==
    \/ Recommend
    \/ Score

SpecAged == InitAged /\ [][NextAged]_vars

\* The age of the most recent data, None when no zone has data.
MostRecentAge ==
    IF NoZoneHasData THEN None
    ELSE SetMax({a \in 0..MaxAge :
                    \A z \in Range(zones) : freshness[z].days_old # None => a <= freshness[z].days_old})

UrgentRecommendations == SelectSeq(recommendations, LAMBDA r : r[1] = "URGENT:")

PlanRecommendations == SelectSeq(recommendations, LAMBDA r : r[1] = "Plan")

ExtractorActions == SelectSeq(auto_actions, LAMBDA a : a.type = "run_extractor")

\* C26: get_recommendations returns one run_extractor action, of priority
\* high, and one URGENT recommendation exactly when the most recent activity
\* is more than 7 days old; when it is more than 3 and at most 7 days old it
\* returns one recommendation to plan a run and no run_extractor action; when
\* it is at most 3 days old, or no zone has data, it returns neither.
C26_ExtractorRunOnlyBeyondAWeek ==
    AfterRecommend =>
        IF MostRecentAge # None /\ MostRecentAge > 7
        THEN /\ Len(ExtractorActions) = 1
             /\ ExtractorActions[1].priority = "high"
             /\ ExtractorActions[1].service = service
             /\ Len(UrgentRecommendations) = 1
             /\ PlanRecommendations = <<>>
        ELSE IF MostRecentAge # None /\ MostRecentAge > 3
        THEN /\ ExtractorActions = <<>>
             /\ UrgentRecommendations = <<>>
             /\ Len(PlanRecommendations) = 1
        ELSE /\ ExtractorActions = <<>>
             /\ UrgentRecommendations = <<>>
             /\ PlanRecommendations = <<>>

\* Data of exactly 7 days: a run is planned and no extractor is started.
C26_Witness ==
    /\ pc = "recommended"
    /\ freshness["landing"].days_old = 7
    /\ freshness["raw"].days_old = None
    /\ Len(PlanRecommendations) = 1
    /\ ExtractorActions = <<>>


(***************************************************************************)
(* The scorer called on given inputs                                       *)
(***************************************************************************)
\* A freshness in which the most recent activity is d days old, or in which
\* no zone has data (d = None).
AgedFreshness(d) ==
    [z \in Range(zones) |->
        zone_freshness([exists |-> TRUE, age |-> IF z = "landing" THEN d ELSE None])]

recent_days_of(fr) == _get_recent_activity_summary(fr).days_old

\* Credential records as check_cookie_health and get_recommendations leave them.
ScorerCookieSamples ==
    LET spotify(files) == check_cookie_health("spotify", [dir |-> TRUE, files |-> files])
        tiktok(files) == check_cookie_health("tiktok", [dir |-> TRUE, files |-> files])
        reconciled(ch) == cookie_reconciliation("spotify", 0, TRUE, ch).cookie_health
    IN <<spotify(<<>>), spotify(<<10>>), spotify(<<31>>),
         reconciled(spotify(<<>>)), reconciled(spotify(<<31>>)),
         tiktok(<<10, 28>>), tiktok(<<10, 31>>),
         check_cookie_health("metaads", [dir |-> FALSE, files |-> <<>>])>>

\* Finding lists as detect_pipeline_bottlenecks returns them.
ScorerBottleneckSamples ==
    {<<>>,
     <<UmbrellaText>>,
     <<NoDataText("raw", "landing")>>,
     <<LagText("raw", 3, "landing"), NoDataText("staging", "raw"), NoDataText("curated", "raw")>>,
     <<TooLostDirectText>>,
     <<LagText("curated", 9, "landing"), TooLostNewerText>>}

ScoreRun(s, fr, ch, found) ==
    [service |-> s, freshness |-> fr,
     base_score |-> base_score(s, fr, ch, found),
     health_score |-> _calculate_weighted_health_score(s, fr, ch, found)]

InitScore ==
    /\ pc = "score_inputs"
    /\ service \in Range(services)
    /\ zone_files = NoZoneDirs
    /\ cookie_files = [dir |-> FALSE, files |-> <<>>]
    /\ toolost_raw = [direct |-> {}, streams |-> {}]
    /\ freshness \in {AgedFreshness(d) : d \in {None} \cup 0..MaxAge}
    /\ \E i \in DOMAIN ScorerCookieSamples : cookie_health = ScorerCookieSamples[i]
    /\ bottlenecks \in ScorerBottleneckSamples
    /\ recommendations = <<>>
    /\ auto_actions = <<>>
    /\ health_score = None
    /\ score_runs = <<>>
    /\ ExecIdle
    /\ ReportIdle
    /\ MainIdle
    /\ CleanersIdle
    /\ ZonesIdle
    /\ FixIdle

\* _calculate_weighted_health_score(service, freshness, cookie_health, bottlenecks)
ScoreCall ==
    /\ pc = "score_inputs"
    /\ LET run == ScoreRun(service, freshness, cookie_health, bottlenecks)
       IN /\ health_score' = run.health_score
          /\ score_runs' = <<run>>
    /\ pc' = "score_called"
    /\ UNCHANGED <<service, zone_files, cookie_files, toolost_raw, freshness, cookie_health,
                   bottlenecks, recommendations, auto_actions>>
    /\ UNCHANGED <<exec_vars, report_vars, main_vars, cleaner_vars, zone_vars, fix_vars>>

\* A second call for the same service, with the most recent activity older.
ScoreOlder ==
    /\ pc = "score_called"
    /\ recent_days_of(freshness) # None
    /\ \E d \in recent_days_of(freshness)..MaxAge :
          score_runs' = Append(score_runs,
                               ScoreRun(service, AgedFreshness(d), cookie_health, bottlenecks))
    /\ pc' = "score_compared"
    /\ UNCHANGED <<service, zone_files, cookie_files, toolost_raw, freshness, cookie_health,
                   bottlenecks, recommendations, auto_actions, health_score>>
    /\ UNCHANGED <<exec_vars, report_vars, main_vars, cleaner_vars, zone_vars, fix_vars>>

\* A second call with the same inputs, for another service.
ScoreOtherService ==
    /\ pc = "score_called"
    /\ \E s \in Range(services) \ {service} :
          score_runs' = Append(score_runs, ScoreRun(s, freshness, cookie_health, bottlenecks))
    /\ pc' = "score_compared"
    /\ UNCHANGED <<service, zone_files, cookie_files, toolost_raw, freshness, cookie_health,
                   bottlenecks, recommendations, auto_actions, health_score>>
    /\ UNCHANGED <<exec_vars, report_vars, main_vars, cleaner_vars, zone_vars, fix_vars>>

NextScore ==
    \/ ScoreCall
    \/ ScoreOlder
    \/ ScoreOtherService

SpecScore == InitScore /\ [][NextScore]_vars

\* C1: the score is an integer between 0 and 100, for every service and every
\* combination of freshness, credential record and findings.
C1_ScoreWithinBounds ==
    /\ pc # "score_inputs" => health_score \in 0..100
    /\ \A i \in DOMAIN score_runs : score_runs[i].health_score \in 0..100

\* A call whose deductions exceed 100 and whose score is 0.
C1_Witness ==
    /\ pc = "score_called"
    /\ score_runs[1].base_score < 0
    /\ health_score = 0

\* C3: with the service, the credential record and the findings fixed, the
\* score never increases with the age of the most recent activity.
C3_ScoreMonotoneInAge ==
    (/\ pc = "score_compared"
     /\ score_runs[2].service = score_runs[1].service
     /\ recent_days_of(score_runs[1].freshness) <= recent_days_of(score_runs[2].freshness))
        => score_runs[2].health_score <= score_runs[1].health_score

\* Data of 8 days scores strictly less than data of 3 days.
C3_Witness ==
    /\ pc = "score_compared"
    /\ score_runs[2].service = score_runs[1].service
    /\ recent_days_of(score_runs[1].freshness) = 3
    /\ recent_days_of(score_runs[2].freshness) = 8
    /\ score_runs[2].health_score < score_runs[1].health_score

\* points deducted by a call: 100 minus the score before the clamp
deduction(run) == 100 - run.base_score

\* C4: of two services given the same freshness, credential record and
\* findings, the one of the higher priority tier is deducted at least as much.
C4_HigherTierDeductsMore ==
    (/\ pc = "score_compared"
     /\ score_runs[2].freshness = score_runs[1].freshness
     /\ service_priority(score_runs[1].service) < service_priority(score_runs[2].service))
        => deduction(score_runs[1]) >= deduction(score_runs[2])

\* Two services of different tiers, neither with a rule of its own, and a
\* fault that costs the higher tier strictly more.
C4_Witness ==
    /\ pc = "score_compared"
    /\ score_runs[1].service = "spotify"
    /\ score_runs[2].service = "distrokid"
    /\ score_runs[2].freshness = score_runs[1].freshness
    /\ deduction(score_runs[1]) > deduction(score_runs[2])
    /\ deduction(score_runs[2]) > 0

(***************************************************************************)
(* _execute_auto_remediation                                               *)
(***************************************************************************)
MaxActions == 3

\* priority_order.get(x['priority'], 999)
priority_order(priority) ==
    CASE priority = "critical" -> 0
      [] priority = "high" -> 1
      [] priority = "medium" -> 2
      [] priority = "low" -> 3
      [] OTHER -> 999

\* sorted() is stable: an action goes after the actions of the same key that
\* came before it in the input.
RECURSIVE insert_by_priority(_, _)
insert_by_priority(sorted, action) ==
    IF sorted = <<>> THEN <<action>>
    ELSE IF priority_order(Head(sorted).priority) <= priority_order(action.priority)
         THEN <<Head(sorted)>> \o insert_by_priority(Tail(sorted), action)
         ELSE <<action>> \o sorted

RECURSIVE sorted_by_priority(_)
sorted_by_priority(acts) ==
    IF acts = <<>> THEN <<>>
    ELSE insert_by_priority(sorted_by_priority(SubSeq(acts, 1, Len(acts) - 1)), acts[Len(acts)])

\* Mutant: the actions left in the order of the input.
in_input_order(acts) == acts

\* sorted(actions, key=lambda x: priority_order.get(x['priority'], 999))
sort_actions(acts) == sorted_by_priority(acts)

\* The result record an iteration starts from.
new_result(action) ==
    [action |-> action, executed |-> FALSE, success |-> FALSE, message |-> ""]

\* What a dispatch hands back to the loop: the result record, the collaborator
\* calls it made, and whether an exception left the iteration.
Dispatched(result, calls) == [outcome |-> result, calls |-> calls, escaped |-> FALSE]

\* Mutant: the handler lets the exception leave the loop.
except_reraises(result, error, calls) ==
    [outcome |-> result, calls |-> calls, escaped |-> TRUE]

\* except Exception as e: the result is marked executed and failed, with str(e).
except_Exception(result, error, calls) ==
    Dispatched([result EXCEPT !.executed = TRUE, !.success = FALSE, !.message = error], calls)

Call(name, s, index, raised) ==
    [call |-> name, service |-> s, index |-> index, raised |-> raised]

\* What the collaborators of a dispatch can do.
RefreshOutcomes == {"success", "failure", "raises"}
NotifyOutcomes == {"ok", "raises"}
CleanerOutcomes == {"true", "false", "raises"}

Environment(action, mgr, notif) ==
    IF action.type = "cookie_refresh" /\ mgr
    THEN UNION {{[refresh |-> r, notify |-> n, cleaners |-> "true", fix |-> TRUE] :
                    n \in (IF notif /\ r # "raises" THEN NotifyOutcomes ELSE {"ok"})} :
                r \in RefreshOutcomes}
    ELSE IF action.type = "run_cleaners"
    THEN {[refresh |-> "success", notify |-> "ok", cleaners |-> c, fix |-> TRUE] :
             c \in CleanerOutcomes}
    ELSE IF action.type = "fix_directory_mismatch" /\ action.service = "toolost"
    THEN {[refresh |-> "success", notify |-> "ok", cleaners |-> "true", fix |-> f] :
             f \in BOOLEAN}
    ELSE {[refresh |-> "success", notify |-> "ok", cleaners |-> "true", fix |-> TRUE]}

\* Mutant: a failed refresh is not notified.
dispatch_cookie_refresh_silent_failure(action, notif, env, index) ==
    LET result == new_result(action)
        refresh_call == Call("refresh_service", action.service, index, env.refresh = "raises")
    IN IF env.refresh = "raises"
       THEN except_Exception(result, "refresh_service raised", <<refresh_call>>)
       ELSE IF env.refresh = "failure"
       THEN Dispatched([result EXCEPT !.executed = TRUE, !.success = FALSE,
                           !.message = "refresh error"], <<refresh_call>>)
       ELSE LET refreshed == [result EXCEPT !.executed = TRUE, !.success = TRUE,
                                 !.message = "Successfully refreshed cookies for " \o action.service]
                notify_call == Call("notify_refresh_success", action.service, index,
                                    env.notify = "raises")
            IN IF ~notif THEN Dispatched(refreshed, <<refresh_call>>)
               ELSE IF env.notify = "raises"
               THEN except_Exception(refreshed, "notifier raised", <<refresh_call, notify_call>>)
               ELSE Dispatched(refreshed, <<refresh_call, notify_call>>)

\* The cookie_refresh branch.
dispatch_cookie_refresh(action, notif, env, index) ==
    LET result == new_result(action)
        refresh_call == Call("refresh_service", action.service, index, env.refresh = "raises")
    IN IF env.refresh = "raises"
       THEN except_Exception(result, "refresh_service raised", <<refresh_call>>)
       ELSE LET refreshed ==
                    IF env.refresh = "success"
                    THEN [result EXCEPT !.executed = TRUE, !.success = TRUE,
                             !.message = "Successfully refreshed cookies for " \o action.service]
                    ELSE [result EXCEPT !.executed = TRUE, !.success = FALSE,
                             !.message = "refresh error"]
                notify_call ==
                    Call(IF env.refresh = "success" THEN "notify_refresh_success"
                                                    ELSE "notify_refresh_failed",
                         action.service, index, env.notify = "raises")
            IN IF ~notif THEN Dispatched(refreshed, <<refresh_call>>)
               ELSE IF env.notify = "raises"
               THEN except_Exception(refreshed, "notifier raised", <<refresh_call, notify_call>>)
               ELSE Dispatched(refreshed, <<refresh_call, notify_call>>)

\* The run_cleaners branch.
dispatch_run_cleaners(action, env, index) ==
    LET result == new_result(action)
        call == Call("_run_cleaners", action.service, index, env.cleaners = "raises")
    IN IF env.cleaners = "raises"
       THEN except_Exception(result, "_run_cleaners raised", <<call>>)
       ELSE Dispatched([result EXCEPT !.executed = TRUE, !.success = (env.cleaners = "true"),
                           !.message = (IF env.cleaners = "true" THEN "Successfully ran"
                                                                  ELSE "Failed to run")
                                          \o " cleaners for " \o action.service],
                       <<call>>)

\* The fix_directory_mismatch branch; _fix_toolost_directory catches its own exceptions.
dispatch_fix_directory(action, env, index) ==
    Dispatched([new_result(action) EXCEPT !.executed = TRUE, !.success = env.fix,
                   !.message = IF env.fix THEN "Fixed TooLost directory structure"
                                          ELSE "Failed to fix directory structure"],
               <<Call("_fix_toolost_directory", action.service, index, FALSE)>>)

\* Mutant: an action without handler is reported as executed.
dispatch_unhandled_executed(action, mgr, notif, env, index) ==
    IF action.type = "cookie_refresh" /\ mgr
    THEN dispatch_cookie_refresh(action, notif, env, index)
    ELSE IF action.type = "run_cleaners"
    THEN dispatch_run_cleaners(action, env, index)
    ELSE IF action.type = "fix_directory_mismatch" /\ action.service = "toolost"
    THEN dispatch_fix_directory(action, env, index)
    ELSE Dispatched([new_result(action) EXCEPT
                        !.executed = TRUE,
                        !.message = "No handler for action type: " \o action.type], <<>>)

\* The body of the loop for one action.
dispatch(action, mgr, notif, env, index) ==
    IF action.type = "cookie_refresh" /\ mgr
    THEN dispatch_cookie_refresh(action, notif, env, index)
    ELSE IF action.type = "run_cleaners"
    THEN dispatch_run_cleaners(action, env, index)
    ELSE IF action.type = "fix_directory_mismatch" /\ action.service = "toolost"
    THEN dispatch_fix_directory(action, env, index)
    ELSE Dispatched([new_result(action) EXCEPT
                        !.message = "No handler for action type: " \o action.type], <<>>)

\* Mutant: only the outcomes that failed are kept in the log.
log_append_failures_only(log, result) == IF result.success THEN log ELSE Append(log, result)

\* self.remediation_log.append(result)
log_append(log, result) == Append(log, result)

\* Actions the executor is given: those get_recommendations builds, one of a
\* priority it never assigns, and a directory fix for a service other than toolost.
ActionSamples ==
    {Action("cookie_refresh", "spotify", "expired_8_days_ago", "critical"),
     Action("cookie_refresh", "tiktok", "missing_cookies", "high"),
     Action("run_cleaners", "distrokid", "pipeline_blocked", "medium"),
     Action("run_extractor", "linktree", "stale_data_4_days", "high"),
     Action("fix_directory_mismatch", "toolost", "directory_structure_issue", "critical"),
     Action("run_cleaners", "linktree", "pipeline_blocked", "low"),
     Action("fix_directory_mismatch", "spotify", "directory_structure_issue", "high")}

\* No service check under way.
CheckIdle ==
    /\ service = "spotify"
    /\ zone_files = NoZoneDirs
    /\ cookie_files = [dir |-> FALSE, files |-> <<>>]
    /\ toolost_raw = [direct |-> {}, streams |-> {}]
    /\ freshness = check_zone_freshness(NoZoneDirs)
    /\ cookie_health = NoCookieHealth
    /\ bottlenecks = <<>>
    /\ recommendations = <<>>
    /\ auto_actions = <<>>
    /\ health_score = None
    /\ score_runs = <<>>

\* A monitor built with auto-remediation enabled, and a call of
\* _execute_auto_remediation on a list of actions.
InitExec ==
    /\ pc = "exec_start"
    /\ CheckIdle
    /\ monitor_services = services
    /\ enable_auto_remediation = TRUE
    /\ report = EmptyReport
    /\ MainIdle
    /\ CleanersIdle
    /\ ZonesIdle
    /\ FixIdle
    /\ cookie_manager \in BOOLEAN
    /\ notifier \in BOOLEAN
    /\ notifier => cookie_manager
    /\ actions \in SeqsUpTo(ActionSamples, MaxActions)
    /\ sorted_actions = <<>>
    /\ executed_actions = <<>>
    /\ remediation_log = <<>>
    /\ log_at_entry = <<>>
    /\ collaborator_calls = <<>>

\* executed_actions = []; sorted_actions = sorted(...)
ExecSort ==
    /\ pc = "exec_start"
    /\ sorted_actions' = sort_actions(actions)
    /\ executed_actions' = <<>>
    /\ log_at_entry' = remediation_log
    /\ pc' = "exec_loop"
    /\ UNCHANGED <<cookie_manager, notifier, actions, remediation_log, collaborator_calls,
                   check_vars, score_runs, report_vars, main_vars, cleaner_vars, zone_vars, fix_vars>>

\* One iteration of the loop: the dispatch in its try, the handler, the two appends.
ExecStep ==
    /\ pc = "exec_loop"
    /\ sorted_actions # <<>>
    /\ \E env \in Environment(Head(sorted_actions), cookie_manager, notifier) :
          LET d == dispatch(Head(sorted_actions), cookie_manager, notifier, env,
                            Len(executed_actions) + 1)
          IN /\ collaborator_calls' = collaborator_calls \o d.calls
             /\ IF d.escaped
                THEN /\ pc' = "exec_raised"
                     /\ UNCHANGED <<sorted_actions, executed_actions, remediation_log>>
                ELSE /\ pc' = pc
                     /\ sorted_actions' = Tail(sorted_actions)
                     /\ executed_actions' = Append(executed_actions, d.outcome)
                     /\ remediation_log' = log_append(remediation_log, d.outcome)
    /\ UNCHANGED <<cookie_manager, notifier, actions, log_at_entry, check_vars, score_runs,
                   report_vars, main_vars, cleaner_vars, zone_vars, fix_vars>>

\* return executed_actions
ExecReturn ==
    /\ pc = "exec_loop"
    /\ sorted_actions = <<>>
    /\ pc' = "exec_done"
    /\ UNCHANGED <<check_vars, score_runs, exec_vars, report_vars, main_vars, cleaner_vars, zone_vars, fix_vars>>

NextExec ==
    \/ ExecSort
    \/ ExecStep
    \/ ExecReturn

SpecExec == InitExec /\ [][NextExec]_vars

(***************************************************************************)
(* Claims about _execute_auto_remediation                                  *)
(***************************************************************************)
\* The actions of the outcomes are those of the input, as many times each.
SameActions(results, acts) ==
    /\ Len(results) = Len(acts)
    /\ \A a \in Range(acts) :
          Cardinality({i \in DOMAIN results : results[i].action = a})
              = Cardinality({i \in DOMAIN acts : acts[i] = a})

\* C5: the actions are dispatched, and their outcomes returned, in the order
\* critical, high, medium, low whatever the order of the input: no outcome of a
\* lower priority precedes one of a higher priority, the collaborators are
\* called in the order of the outcomes, and the returned outcomes are those of
\* the input actions.
C5_OutcomesInPriorityOrder ==
    /\ \A i, j \in DOMAIN executed_actions :
          i < j => priority_order(executed_actions[i].action.priority)
                      <= priority_order(executed_actions[j].action.priority)
    /\ \A i, j \in DOMAIN collaborator_calls :
          i < j => collaborator_calls[i].index <= collaborator_calls[j].index
    /\ \A i \in DOMAIN collaborator_calls :
          /\ collaborator_calls[i].index \in DOMAIN executed_actions
          /\ collaborator_calls[i].service
                = executed_actions[collaborator_calls[i].index].action.service
    /\ pc = "exec_done" => SameActions(executed_actions, actions)

\* The example of the claim: input critical, low, high gives critical, high, low.
C5_Witness ==
    /\ pc = "exec_done"
    /\ Len(actions) = 3
    /\ actions[1].priority = "critical"
    /\ actions[2].priority = "low"
    /\ actions[3].priority = "high"
    /\ Len(executed_actions) = 3
    /\ executed_actions[1].action = actions[1]
    /\ executed_actions[2].action = actions[3]
    /\ executed_actions[3].action = actions[2]
    /\ Len(collaborator_calls) >= 2

\* The calls of the notifier made for the k-th outcome.
NotifyCalls(k) ==
    {i \in DOMAIN collaborator_calls :
        /\ collaborator_calls[i].index = k
        /\ collaborator_calls[i].call \in {"notify_refresh_success", "notify_refresh_failed"}}

\* The refresh collaborator was called for the k-th outcome and returned.
RefreshReturned(k) ==
    \E i \in DOMAIN collaborator_calls :
        /\ collaborator_calls[i].index = k
        /\ collaborator_calls[i].call = "refresh_service"
        /\ ~collaborator_calls[i].raised

\* C18, as claimed: with a notifier, each outcome, of whatever kind of action
\* and whether it succeeded or failed, has one call of the notifier.
C18_Original_EveryOutcomeNotified ==
    notifier => \A k \in DOMAIN executed_actions : Cardinality(NotifyCalls(k)) = 1

\* C18, amended: with a notifier, an outcome has one call of the notifier
\* exactly when its action is a cookie_refresh whose refresh returned
\* (notify_refresh_success after a success, notify_refresh_failed after a
\* failure); the outcomes of cleaner runs, directory fixes, actions without
\* handler and refreshes that raised have none; without a notifier there is
\* no call at all.
C18_OnlyRefreshOutcomesNotified ==
    \A k \in DOMAIN executed_actions :
        LET calls == NotifyCalls(k)
            outcome == executed_actions[k]
        IN IF notifier /\ outcome.action.type = "cookie_refresh" /\ RefreshReturned(k)
           THEN /\ Cardinality(calls) = 1
                /\ \A i \in calls :
                      /\ collaborator_calls[i].service = outcome.action.service
                      /\ outcome.success => collaborator_calls[i].call = "notify_refresh_success"
                      /\ collaborator_calls[i].call = "notify_refresh_failed"
                            => ~outcome.success
           ELSE calls = {}

\* A batch with a refresh that succeeded, one that failed, and a cleaner run.
C18_Witness ==
    /\ pc = "exec_done"
    /\ notifier
    /\ Len(executed_actions) = 3
    /\ \E i \in DOMAIN collaborator_calls : collaborator_calls[i].call = "notify_refresh_success"
    /\ \E i \in DOMAIN collaborator_calls : collaborator_calls[i].call = "notify_refresh_failed"
    /\ \E k \in DOMAIN executed_actions :
          /\ executed_actions[k].action.type = "run_cleaners"
          /\ executed_actions[k].executed
          /\ NotifyCalls(k) = {}

\* C19, as claimed: when the notifier raises after the refresh collaborator
\* reported success, the outcome of the action is still executed and
\* successful.
C19_NotifierFailureKeepsSuccess ==
    \A i \in DOMAIN collaborator_calls :
        (collaborator_calls[i].call = "notify_refresh_success"
            /\ collaborator_calls[i].raised
            /\ collaborator_calls[i].index \in DOMAIN executed_actions) =>
           /\ executed_actions[collaborator_calls[i].index].executed
           /\ executed_actions[collaborator_calls[i].index].success

\* C6: a dispatch that raises never leaves the loop: the exception is recorded
\* as a failed outcome of its action (executed, not successful, the text of the
\* exception as message), and when the call returns every action of the batch
\* has an outcome.
C6_RaisingDispatchIsRecorded ==
    /\ pc # "exec_raised"
    /\ \A i \in DOMAIN collaborator_calls :
          collaborator_calls[i].raised =>
             LET result == executed_actions[collaborator_calls[i].index]
             IN /\ result.executed
                /\ ~result.success
                /\ result.message # ""
    /\ pc = "exec_done" => SameActions(executed_actions, actions)

\* A batch whose first dispatch raised and whose later actions got outcomes.
C6_Witness ==
    /\ pc = "exec_done"
    /\ Len(executed_actions) = 3
    /\ \E i \in DOMAIN collaborator_calls :
          /\ collaborator_calls[i].raised
          /\ collaborator_calls[i].call = "_run_cleaners"
          /\ collaborator_calls[i].index = 1
    /\ executed_actions[2].executed
    /\ executed_actions[2].success

(***************************************************************************)
(* Two calls of _execute_auto_remediation on one monitor                   *)
(***************************************************************************)
\* Batches of the first call.
FirstBatches ==
    {<<Action("cookie_refresh", "spotify", "expired_8_days_ago", "critical")>>,
     <<Action("run_cleaners", "distrokid", "pipeline_blocked", "medium"),
       Action("fix_directory_mismatch", "toolost", "directory_structure_issue", "critical")>>,
     <<Action("run_extractor", "linktree", "stale_data_4_days", "high")>>}

InitExecTwice ==
    /\ pc = "exec_start"
    /\ CheckIdle
    /\ monitor_services = services
    /\ enable_auto_remediation = TRUE
    /\ report = EmptyReport
    /\ MainIdle
    /\ CleanersIdle
    /\ ZonesIdle
    /\ FixIdle
    /\ cookie_manager \in BOOLEAN
    /\ notifier \in BOOLEAN
    /\ notifier => cookie_manager
    /\ actions \in FirstBatches
    /\ sorted_actions = <<>>
    /\ executed_actions = <<>>
    /\ remediation_log = <<>>
    /\ log_at_entry = <<>>
    /\ collaborator_calls = <<>>

\* The executor is called a second time, on the monitor whose log holds the
\* outcomes of the first call.
ExecCallAgain ==
    /\ pc = "exec_done"
    /\ log_at_entry = <<>>
    /\ remediation_log # <<>>
    /\ actions' \in SeqsUpTo(ActionSamples, MaxActions - 1)
    /\ collaborator_calls' = <<>>
    /\ pc' = "exec_start"
    /\ UNCHANGED <<cookie_manager, notifier, sorted_actions, executed_actions, remediation_log,
                   log_at_entry, check_vars, score_runs, report_vars, main_vars, cleaner_vars,
                   zone_vars, fix_vars>>

NextExecTwice ==
    \/ ExecSort
    \/ ExecStep
    \/ ExecReturn
    \/ ExecCallAgain

SpecExecTwice == InitExecTwice /\ [][NextExecTwice]_vars

\* C23: the remediation log is append-only.  During a call of
\* _execute_auto_remediation the log is the log the call found followed by
\* the outcomes of the call so far, in the order of execution; when the call
\* returns it has appended as many outcomes as it was given actions, one for
\* each of them, no earlier entry is gone or changed, and the list it returns
\* is the suffix it appended.
C23_LogIsAppendOnly ==
    /\ pc \in {"exec_loop", "exec_done"} =>
          /\ Len(remediation_log) = Len(log_at_entry) + Len(executed_actions)
          /\ \A i \in DOMAIN log_at_entry : remediation_log[i] = log_at_entry[i]
          /\ \A k \in DOMAIN executed_actions :
                remediation_log[Len(log_at_entry) + k] = executed_actions[k]
          /\ \A i \in DOMAIN collaborator_calls :
                /\ collaborator_calls[i].index \in DOMAIN executed_actions
                /\ \A j \in DOMAIN collaborator_calls :
                      i < j => collaborator_calls[i].index <= collaborator_calls[j].index
    /\ pc = "exec_done" =>
          /\ Len(remediation_log) = Len(log_at_entry) + Len(actions)
          /\ SameActions(executed_actions, actions)
    /\ pc # "exec_raised"

\* A second call with two actions, one of which succeeded, on a log that
\* held the two outcomes of the first call.
C23_Witness ==
    /\ pc = "exec_done"
    /\ Len(log_at_entry) = 2
    /\ Len(actions) = 2
    /\ Len(remediation_log) = 4
    /\ remediation_log[1].action.type = "fix_directory_mismatch"
    /\ remediation_log[3] = executed_actions[1]
    /\ remediation_log[4] = executed_actions[2]
    /\ executed_actions[1].success
    /\ ~executed_actions[2].executed


\* No branch of the dispatch applies to the action.
NoHandlerApplies(action) ==
    \/ action.type = "run_extractor"
    \/ action.type = "cookie_refresh" /\ ~cookie_manager
    \/ action.type = "fix_directory_mismatch" /\ action.service # "toolost"

CallsFor(index) == SelectSeq(collaborator_calls, LAMBDA c : c.index = index)

\* C28: an action for which no handler applies (a run_extractor action, a
\* cookie_refresh action without credential-refresh manager, a
\* fix_directory_mismatch action for a service other than toolost) invokes no
\* collaborator and yields an outcome with executed and success false, while
\* every other action calls a collaborator and is marked executed; an outcome
\* has success true only if it has executed true.
C28_UnhandledActionIsNotExecuted ==
    \A i \in DOMAIN executed_actions :
        /\ NoHandlerApplies(executed_actions[i].action) =>
              /\ ~executed_actions[i].executed
              /\ ~executed_actions[i].success
              /\ CallsFor(i) = <<>>
        /\ ~NoHandlerApplies(executed_actions[i].action) =>
              /\ executed_actions[i].executed
              /\ CallsFor(i) # <<>>
        /\ executed_actions[i].success => executed_actions[i].executed

\* A call without manager whose three actions, an extractor run, a credential
\* refresh and a directory fix for spotify, all come back not executed.
C28_Witness ==
    /\ pc = "exec_done"
    /\ ~cookie_manager
    /\ Len(executed_actions) = 3
    /\ \E i \in 1..3 : executed_actions[i].action.type = "run_extractor"
    /\ \E i \in 1..3 : executed_actions[i].action.type = "cookie_refresh"
    /\ \E i \in 1..3 : /\ executed_actions[i].action.type = "fix_directory_mismatch"
                         /\ executed_actions[i].action.service = "spotify"
    /\ \A i \in 1..3 : ~executed_actions[i].executed
    /\ collaborator_calls = <<>>

(***************************************************************************)
(* generate_report                                                         *)
(***************************************************************************)
\* The status of a service from its score.
service_status(score) ==
    IF score >= 80 THEN "HEALTHY"
    ELSE IF score >= 60 THEN "WARNING"
    ELSE IF score >= 30 THEN "CRITICAL"
    ELSE "FAILED"

\* self.service_priority.get(service, ServicePriority.LOW).name
priority_name(s) ==
    CASE service_priority(s) = 1 -> "CRITICAL"
      [] service_priority(s) = 2 -> "HIGH"
      [] service_priority(s) = 3 -> "MEDIUM"
      [] OTHER -> "LOW"

\* The body of the loop over the services: the checks of one service on the
\* filesystem it finds, and the entry they give.
service_entry(s, zf, cf, tr) ==
    LET fr == check_zone_freshness(zf)
        recent_summary == _get_recent_activity_summary(fr)
        ch == check_cookie_health(s, cf)
        found == detect_pipeline_bottlenecks(s, fr, tr)
        r == get_recommendations(s, fr, ch, found)
        score == _calculate_weighted_health_score(s, fr, r.cookie_health, found)
    IN [service |-> s,
        health_score |-> score,
        status |-> service_status(score),
        priority |-> priority_name(s),
        freshness |-> fr,
        recent_activity |-> recent_summary,
        cookie_health |-> r.cookie_health,
        bottlenecks |-> found,
        recommendations |-> r.recommendations,
        auto_actions |-> r.auto_actions]

RECURSIVE all_auto_actions(_)
all_auto_actions(entries) ==
    IF entries = <<>> THEN <<>>
    ELSE all_auto_actions(SubSeq(entries, 1, Len(entries) - 1)) \o entries[Len(entries)].auto_actions

RECURSIVE sum_scores(_)
sum_scores(entries) ==
    IF entries = <<>> THEN 0
    ELSE sum_scores(Tail(entries)) + Head(entries).health_score

critical_services(entries) ==
    {i \in DOMAIN entries : entries[i].status \in {"CRITICAL", "FAILED"}}

\* avg_score >= bound, with avg_score = sum / len, or 0 without scores
avg_at_least(entries, bound) ==
    IF entries = <<>> THEN 0 >= bound
    ELSE sum_scores(entries) >= bound * Len(entries)

\* Mutant: a single critical service is not tolerated below an average of 60.
overall_status_no_critical_tolerated(entries) ==
    LET critical == Cardinality(critical_services(entries))
    IN IF avg_at_least(entries, 80) /\ critical = 0 THEN "HEALTHY"
       ELSE IF avg_at_least(entries, 60) \/ critical < 1 THEN "WARNING"
       ELSE IF avg_at_least(entries, 30) \/ critical <= 2 THEN "CRITICAL"
       ELSE "FAILED"

\* Mutant: WARNING needs both the average and the count.
overall_status_warning_needs_both(entries) ==
    LET critical == Cardinality(critical_services(entries))
    IN IF avg_at_least(entries, 80) /\ critical = 0 THEN "HEALTHY"
       ELSE IF avg_at_least(entries, 60) /\ critical <= 1 THEN "WARNING"
       ELSE IF avg_at_least(entries, 30) \/ critical <= 2 THEN "CRITICAL"
       ELSE "FAILED"

overall_status(entries) ==
    LET critical == Cardinality(critical_services(entries))
    IN IF avg_at_least(entries, 80) /\ critical = 0 THEN "HEALTHY"
       ELSE IF avg_at_least(entries, 60) \/ critical <= 1 THEN "WARNING"
       ELSE IF avg_at_least(entries, 30) \/ critical <= 2 THEN "CRITICAL"
       ELSE "FAILED"

\* The zones of a service, all of one age.
ZonesAged(a) == [z \in Range(zones) |-> [exists |-> TRUE, age |-> a]]

\* Filesystems a service is found in: data of today with a valid credential,
\* cleaners lagging behind the extractor, everything stale with the later
\* zones further behind and the credential expired for more than a week, and
\* nothing at all.
ReportScenarios(s) ==
    LET cookie(o) == [dir |-> TRUE, files |-> <<expiry_days(s) + o>>]
        missing == IF wildcard_pattern(s) THEN [dir |-> FALSE, files |-> <<>>]
                                          ELSE [dir |-> TRUE, files |-> <<>>]
        streams(a) == IF s = "toolost" THEN [direct |-> {}, streams |-> {a}]
                                       ELSE [direct |-> {}, streams |-> {}]
    IN {[zone_files |-> ZonesAged(0), cookie_files |-> cookie(-4), toolost_raw |-> streams(0)],
        [zone_files |-> [ZonesAged(0) EXCEPT !["staging"].age = 4, !["curated"].age = 4],
         cookie_files |-> cookie(-4), toolost_raw |-> streams(0)],
        [zone_files |-> [ZonesAged(8) EXCEPT !["staging"].age = 12, !["curated"].age = 12],
         cookie_files |-> cookie(8), toolost_raw |-> streams(8)],
        [zone_files |-> NoZoneDirs, cookie_files |-> missing,
         toolost_raw |-> [direct |-> {}, streams |-> {}]]}

\* A monitor as __init__ or main leaves it, at the start of generate_report.
InitReport ==
    /\ pc = "report_loop"
    /\ CheckIdle
    /\ monitor_services \in {services} \cup {<<s>> : s \in Range(services)}
    /\ enable_auto_remediation \in BOOLEAN
    /\ cookie_manager \in BOOLEAN
    /\ notifier \in BOOLEAN
    /\ cookie_manager => enable_auto_remediation
    /\ notifier => cookie_manager
    /\ report = EmptyReport
    /\ MainIdle
    /\ CleanersIdle
    /\ ZonesIdle
    /\ FixIdle
    /\ actions = <<>>
    /\ sorted_actions = <<>>
    /\ executed_actions = <<>>
    /\ remediation_log = <<>>
    /\ log_at_entry = <<>>
    /\ collaborator_calls = <<>>

\* One iteration of the loop over self.services.
ReportService ==
    /\ pc = "report_loop"
    /\ Len(report.services) < Len(monitor_services)
    /\ LET s == monitor_services[Len(report.services) + 1]
       IN \E scenario \in ReportScenarios(s) :
            LET entry == service_entry(s, scenario.zone_files, scenario.cookie_files,
                                       scenario.toolost_raw)
            IN /\ enable_auto_remediation =>
                     Len(all_auto_actions(report.services)) + Len(entry.auto_actions) <= MaxActions
               /\ service' = s
               /\ zone_files' = scenario.zone_files
               /\ cookie_files' = scenario.cookie_files
               /\ toolost_raw' = scenario.toolost_raw
               /\ freshness' = entry.freshness
               /\ cookie_health' = entry.cookie_health
               /\ bottlenecks' = entry.bottlenecks
               /\ recommendations' = entry.recommendations
               /\ auto_actions' = entry.auto_actions
               /\ health_score' = entry.health_score
               /\ report' = [report EXCEPT !.services = Append(@, entry)]
    /\ UNCHANGED <<pc, score_runs, exec_vars, monitor_services, enable_auto_remediation,
                   main_vars, cleaner_vars, zone_vars, fix_vars>>

\* An iteration in which a file of the service is gone when max() reads its
\* modification time: p.stat() raises in check_zone_freshness, which has no
\* handler, and neither has generate_report.
ReportServiceRaises ==
    /\ pc = "report_loop"
    /\ Len(report.services) < Len(monitor_services)
    /\ LET s == monitor_services[Len(report.services) + 1]
       IN \E scenario \in ReportScenarios(s) :
            /\ \E z \in Range(zones) : scenario.zone_files[z].age # None
            /\ service' = s
            /\ zone_files' = scenario.zone_files
    /\ pc' = "report_raised"
    /\ UNCHANGED <<cookie_files, toolost_raw, freshness, cookie_health, bottlenecks,
                   recommendations, auto_actions, health_score, score_runs, exec_vars,
                   report_vars, main_vars, cleaner_vars, zone_vars, fix_vars>>

\* Mutant: the remediation runs whenever there is something to do, enabled or not.
ReportOverall_ignores_the_switch ==
    /\ pc = "report_loop"
    /\ Len(report.services) = Len(monitor_services)
    /\ LET todo == all_auto_actions(report.services)
           status == overall_status(report.services)
       IN IF todo # <<>>
          THEN /\ report' = [report EXCEPT !.overall_status = status]
               /\ actions' = todo
               /\ pc' = "exec_start"
          ELSE /\ report' = [report EXCEPT !.overall_status = status,
                                           !.remediation_actions = todo]
               /\ actions' = actions
               /\ pc' = "report_done"
    /\ UNCHANGED <<check_vars, score_runs, cookie_manager, notifier, sorted_actions,
                   executed_actions, remediation_log, log_at_entry, collaborator_calls,
                   monitor_services, enable_auto_remediation, main_vars, cleaner_vars, zone_vars, fix_vars>>

\* After the loop: the overall status, and the remediation when it is enabled
\* and there is something to do.
ReportOverall ==
    /\ pc = "report_loop"
    /\ Len(report.services) = Len(monitor_services)
    /\ LET todo == all_auto_actions(report.services)
           status == overall_status(report.services)
       IN IF enable_auto_remediation /\ todo # <<>>
          THEN /\ report' = [report EXCEPT !.overall_status = status]
               /\ actions' = todo
               /\ pc' = "exec_start"
          ELSE /\ report' = [report EXCEPT !.overall_status = status,
                                           !.remediation_actions = todo]
               /\ actions' = actions
               /\ pc' = "report_done"
    /\ UNCHANGED <<check_vars, score_runs, cookie_manager, notifier, sorted_actions,
                   executed_actions, remediation_log, log_at_entry, collaborator_calls,
                   monitor_services, enable_auto_remediation, main_vars, cleaner_vars, zone_vars, fix_vars>>

\* report['remediation_actions'] = self._execute_auto_remediation(all_auto_actions)
ReportReturn ==
    /\ pc = "exec_done"
    /\ report' = [report EXCEPT !.remediation_actions = executed_actions]
    /\ pc' = "report_done"
    /\ UNCHANGED <<check_vars, score_runs, exec_vars, monitor_services, enable_auto_remediation,
                   main_vars, cleaner_vars, zone_vars, fix_vars>>

NextReport ==
    \/ ReportService
    \/ ReportServiceRaises
    \/ ReportOverall
    \/ ExecSort
    \/ ExecStep
    \/ ExecReturn
    \/ ReportReturn

SpecReport == InitReport /\ [][NextReport]_vars

(***************************************************************************)
(* Claims about generate_report                                            *)
(***************************************************************************)
\* The report holds its overall status.
OverallSet == pc \in {"exec_start", "exec_loop", "exec_done", "report_done"}

Scores == [i \in DOMAIN report.services |-> report.services[i].health_score]

RECURSIVE SeqSum(_)
SeqSum(q) == IF q = <<>> THEN 0 ELSE Head(q) + SeqSum(Tail(q))

\* The services whose score is below 30 (failed) or below 60 (critical).
CriticalOrWorse == {i \in DOMAIN Scores : Scores[i] < 60}

\* average score >= bound, for a report with at least one service
AverageAtLeast(bound) == SeqSum(Scores) >= bound * Len(Scores)

\* C15: the status of a service is HEALTHY from 80, WARNING from 60, CRITICAL
\* from 30, else FAILED; with C the number of services CRITICAL or FAILED, the
\* overall status is HEALTHY iff the average is >= 80 and C = 0; otherwise
\* WARNING iff the average is >= 60 or C <= 1; otherwise CRITICAL iff the
\* average is >= 30 or C <= 2; otherwise FAILED.
C15_OverallStatusFromAverageAndCriticals ==
    OverallSet =>
        /\ \A i \in DOMAIN report.services :
              report.services[i].status =
                 IF Scores[i] >= 80 THEN "HEALTHY"
                 ELSE IF Scores[i] >= 60 THEN "WARNING"
                 ELSE IF Scores[i] >= 30 THEN "CRITICAL"
                 ELSE "FAILED"
        /\ LET C == Cardinality(CriticalOrWorse)
           IN /\ report.overall_status = "HEALTHY" <=> (AverageAtLeast(80) /\ C = 0)
              /\ report.overall_status = "WARNING" <=>
                    /\ ~(AverageAtLeast(80) /\ C = 0)
                    /\ (AverageAtLeast(60) \/ C <= 1)
              /\ report.overall_status = "CRITICAL" <=>
                    /\ ~(AverageAtLeast(80) /\ C = 0)
                    /\ ~(AverageAtLeast(60) \/ C <= 1)
                    /\ (AverageAtLeast(30) \/ C <= 2)
              /\ report.overall_status = "FAILED" <=>
                    /\ ~(AverageAtLeast(80) /\ C = 0)
                    /\ ~(AverageAtLeast(60) \/ C <= 1)
                    /\ ~(AverageAtLeast(30) \/ C <= 2)

\* A report of the six services with an average below 30 and more than two
\* services CRITICAL or FAILED.
C15_Witness ==
    /\ pc = "report_done"
    /\ Len(report.services) = 6
    /\ ~AverageAtLeast(30)
    /\ Cardinality(CriticalOrWorse) > 2
    /\ report.overall_status = "FAILED"

\* C8: a failed scan of one service never prevents reporting on the others:
\* generate_report does not raise when a file of a service vanishes between
\* its enumeration and the read of its modification time, and the report it
\* returns has an entry for every configured service.
C8_FailedScanDoesNotRaise ==
    /\ pc # "report_raised"
    /\ pc = "report_done" => Len(report.services) = Len(monitor_services)

\* The actions generated for the services of the report, in the order of the
\* services and, for one service, of their generation.
RECURSIVE Flatten(_)
Flatten(lists) == IF lists = <<>> THEN <<>> ELSE Head(lists) \o Flatten(Tail(lists))

PendingActions == Flatten([i \in DOMAIN report.services |-> report.services[i].auto_actions])

\* C17: with auto-remediation disabled generate_report calls no collaborator,
\* leaves the remediation log as it was, and returns as remediation_actions
\* the actions generated for the services, unexecuted and in the order of
\* generation; with auto-remediation enabled and at least one action,
\* remediation_actions holds one outcome for each generated action.
C17_DisabledPassesActionsThrough ==
    /\ ~enable_auto_remediation =>
          /\ collaborator_calls = <<>>
          /\ remediation_log = <<>>
          /\ executed_actions = <<>>
          /\ pc \notin {"exec_start", "exec_loop", "exec_done"}
          /\ pc = "report_done" => report.remediation_actions = PendingActions
    /\ (enable_auto_remediation /\ pc = "report_done" /\ PendingActions # <<>>) =>
          /\ SameActions(report.remediation_actions, PendingActions)
          /\ \A i \in DOMAIN report.remediation_actions :
                report.remediation_actions[i].executed \in BOOLEAN
          /\ remediation_log = report.remediation_actions

\* A report with auto-remediation disabled whose pending actions include a
\* cleaner run and a credential refresh.
C17_Witness ==
    /\ pc = "report_done"
    /\ ~enable_auto_remediation
    /\ \E i \in DOMAIN report.remediation_actions :
          report.remediation_actions[i].type = "run_cleaners"
    /\ \E i \in DOMAIN report.remediation_actions :
          report.remediation_actions[i].type = "cookie_refresh"
    /\ collaborator_calls = <<>>

(***************************************************************************)
(* main                                                                    *)
(***************************************************************************)
\* Mutant: a WARNING fails the pipeline like a CRITICAL.
exit_codes_warning_fails(status) ==
    CASE status = "HEALTHY" -> 0
      [] status = "WARNING" -> 1
      [] status = "CRITICAL" -> 1
      [] status = "FAILED" -> 2
      [] OTHER -> 1

\* exit_codes.get(report['overall_status'], 1)
exit_codes(status) ==
    CASE status = "HEALTHY" -> 0
      [] status = "WARNING" -> 0
      [] status = "CRITICAL" -> 1
      [] status = "FAILED" -> 2
      [] OTHER -> 1

\* Values of --service: not given, a configured service, an unknown name.
ServiceArguments == {""} \cup Range(services) \cup {"soundcloud"}

\* main after it has built the monitor from its arguments.
InitMain ==
    /\ pc = "main"
    /\ CheckIdle
    /\ args_service \in ServiceArguments
    /\ exit_code = None
    /\ CleanersIdle
    /\ ZonesIdle
    /\ FixIdle
    /\ monitor_services = services
    /\ enable_auto_remediation \in BOOLEAN
    /\ cookie_manager \in BOOLEAN
    /\ notifier \in BOOLEAN
    /\ cookie_manager => enable_auto_remediation
    /\ notifier => cookie_manager
    /\ report = EmptyReport
    /\ actions = <<>>
    /\ sorted_actions = <<>>
    /\ executed_actions = <<>>
    /\ remediation_log = <<>>
    /\ log_at_entry = <<>>
    /\ collaborator_calls = <<>>

\* if args.service: an unknown service returns 1, a known one narrows
\* monitor.services; then generate_report is called.
MainFilter ==
    /\ pc = "main"
    /\ IF args_service # "" /\ args_service \notin Range(services)
       THEN /\ exit_code' = 1
            /\ pc' = "exited"
            /\ UNCHANGED monitor_services
       ELSE /\ monitor_services' = IF args_service # "" THEN <<args_service>> ELSE monitor_services
            /\ pc' = "report_loop"
            /\ UNCHANGED exit_code
    /\ UNCHANGED <<check_vars, score_runs, exec_vars, enable_auto_remediation, report,
                   args_service, cleaner_vars, zone_vars, fix_vars>>

\* The report is printed and the exit code taken from its overall status.
MainExit ==
    /\ pc = "report_done"
    /\ exit_code' = exit_codes(report.overall_status)
    /\ pc' = "exited"
    /\ UNCHANGED <<check_vars, score_runs, exec_vars, report_vars, args_service, cleaner_vars, zone_vars, fix_vars>>

NextMain ==
    \/ MainFilter
    \/ ReportService
    \/ ReportServiceRaises
    \/ ReportOverall
    \/ ExecSort
    \/ ExecStep
    \/ ExecReturn
    \/ ReportReturn
    \/ MainExit

SpecMain == InitMain /\ [][NextMain]_vars

(***************************************************************************)
(* Claims about main                                                       *)
(***************************************************************************)
\* C16: main returns 0 when the overall status of the report is HEALTHY or
\* WARNING, 1 when it is CRITICAL and 2 when it is FAILED; with an unknown
\* --service it returns 1 and no report is generated: no service is checked
\* and no collaborator is called.
C16_ExitCodeFromOverallStatus ==
    pc = "exited" =>
        IF args_service = "" \/ args_service \in Range(services)
        THEN /\ Len(report.services) = Len(monitor_services)
             /\ report.overall_status \in {"HEALTHY", "WARNING"} => exit_code = 0
             /\ report.overall_status = "CRITICAL" => exit_code = 1
             /\ report.overall_status = "FAILED" => exit_code = 2
             /\ exit_code \in {0, 1, 2}
        ELSE /\ exit_code = 1
             /\ report = EmptyReport
             /\ collaborator_calls = <<>>
             /\ freshness = check_zone_freshness(NoZoneDirs)

\* A run over the six services that ends FAILED with exit code 2.
C16_Witness ==
    /\ pc = "exited"
    /\ args_service = ""
    /\ report.overall_status = "FAILED"
    /\ exit_code = 2


\* C29: when exactly one service is checked (the --service option) the overall
\* status of the report is HEALTHY or WARNING whatever the score of the
\* service, score 0 and status FAILED included, and the exit code is 0.
C29_SingleServiceExitsZero ==
    args_service \in Range(services) =>
        /\ (OverallSet \/ pc = "exited") =>
              /\ Len(report.services) = 1
              /\ report.services[1].service = args_service
              /\ report.overall_status \in {"HEALTHY", "WARNING"}
              /\ report.overall_status = "HEALTHY" <=> report.services[1].health_score >= 80
        /\ pc = "exited" => exit_code = 0

\* A run with --service on a service that scores 0 and is FAILED, which ends
\* with overall status WARNING and exit code 0.
C29_Witness ==
    /\ pc = "exited"
    /\ args_service \in Range(services)
    /\ report.services[1].health_score = 0
    /\ report.services[1].status = "FAILED"
    /\ report.overall_status = "WARNING"
    /\ exit_code = 0

(***************************************************************************)
(* _run_cleaners                                                           *)
(***************************************************************************)
\* cleaner_order
cleaner_order(s) ==
    <<s \o "_landing2raw.py", s \o "_raw2staging.py", s \o "_staging2curated.py">>

\* What the script of a stage does: it is not there, it exits with status 0,
\* it exits with another status, or subprocess.run raises.
ScriptStates == {"absent", "exits_zero", "exits_nonzero", "raises"}

\* The cleaners directory of the service: absent, or with the stage scripts it holds.
CleanersDirs ==
    {[dir |-> FALSE, scripts |-> <<"absent", "absent", "absent">>]}
        \cup {[dir |-> TRUE, scripts |-> sc] : sc \in [1..3 -> ScriptStates]}

\* A call of _run_cleaners(service).
InitCleaners ==
    /\ pc = "cleaners_start"
    /\ service \in Range(services)
    /\ zone_files = NoZoneDirs
    /\ cookie_files = [dir |-> FALSE, files |-> <<>>]
    /\ toolost_raw = [direct |-> {}, streams |-> {}]
    /\ freshness = check_zone_freshness(NoZoneDirs)
    /\ cookie_health = NoCookieHealth
    /\ bottlenecks = <<>>
    /\ recommendations = <<>>
    /\ auto_actions = <<>>
    /\ health_score = None
    /\ score_runs = <<>>
    /\ ExecIdle
    /\ ReportIdle
    /\ MainIdle
    /\ cleaners_fs \in CleanersDirs
    /\ cleaner_stage = 1
    /\ cleaner_runs = <<>>
    /\ success = TRUE
    /\ ZonesIdle
    /\ FixIdle

\* if not cleaners_dir.exists(): return False
CleanersEnter ==
    /\ pc = "cleaners_start"
    /\ IF ~cleaners_fs.dir
       THEN success' = FALSE /\ pc' = "cleaners_done"
       ELSE success' = TRUE /\ pc' = "cleaners_loop"
    /\ UNCHANGED <<check_vars, score_runs, exec_vars, report_vars, main_vars,
                   cleaners_fs, cleaner_stage, cleaner_runs, zone_vars, fix_vars>>

\* The outcome of a stage that leaves success as it is.
stage_passes(state) == state \in {"absent", "exits_zero"}

\* One iteration of the loop over cleaner_order: a script that is not there is
\* passed over; one that exits non-zero, or whose launch raises, ends the loop.
CleanerStage ==
    /\ pc = "cleaners_loop"
    /\ cleaner_stage <= Len(cleaner_order(service))
    /\ LET state == cleaners_fs.scripts[cleaner_stage]
       IN /\ cleaner_runs' =
                IF state = "absent" THEN cleaner_runs
                ELSE Append(cleaner_runs,
                            [script |-> cleaner_order(service)[cleaner_stage], ended |-> state])
          /\ IF stage_passes(state)
             THEN /\ cleaner_stage' = cleaner_stage + 1
                  /\ UNCHANGED <<success, pc>>
             ELSE /\ success' = FALSE
                  /\ pc' = "cleaners_done"
                  /\ UNCHANGED cleaner_stage
    /\ UNCHANGED <<check_vars, score_runs, exec_vars, report_vars, main_vars, cleaners_fs,
                   zone_vars, fix_vars>>

\* return success
CleanersReturn ==
    /\ pc = "cleaners_loop"
    /\ cleaner_stage > Len(cleaner_order(service))
    /\ pc' = "cleaners_done"
    /\ UNCHANGED <<check_vars, score_runs, exec_vars, report_vars, main_vars, cleaner_vars, zone_vars, fix_vars>>

NextCleaners ==
    \/ CleanersEnter
    \/ CleanerStage
    \/ CleanersReturn

SpecCleaners == InitCleaners /\ [][NextCleaners]_vars

(***************************************************************************)
(* Claims about _run_cleaners                                              *)
(***************************************************************************)
\* C20: _run_cleaners returns true if and only if every stage of the cleaner
\* sequence, landing2raw, raw2staging, staging2curated, was run and exited
\* with status zero.
C20_TrueIffEveryStageRanAndExitedZero ==
    pc = "cleaners_done" =>
        (success <=>
            /\ Len(cleaner_runs) = 3
            /\ \A i \in 1..3 :
                  /\ cleaner_runs[i].script = cleaner_order(service)[i]
                  /\ cleaner_runs[i].ended = "exits_zero")

(***************************************************************************)
(* __init__ resolving the zone directories, then check_zone_freshness      *)
(***************************************************************************)
\* Project roots: absolute, relative to the working directory, behind a link.
Roots == {<<"/", "proj">>, <<"proj">>, <<"/", "srv", "link", "proj">>}

\* Values of a zone variable: not set, relative, relative leaving the project
\* root, absolute, absolute with "..", absolute through a link or a link loop.
OverrideSamples ==
    {<<>>, <<"custom_curated">>, <<"..", "shared">>, <<"/", "mnt", "lake">>,
     <<"/", "srv", "..", "mnt", "lake">>, <<"/", "srv", "link">>, <<"/", "srv", "loop">>}

\* The environments: at most one zone variable set, that of a zone that is
\* scanned or that of the archive.
Environments ==
    {[NoOverrides EXCEPT ![env_var(z)] = o] :
        z \in Range(zones) \cup {"archive"}, o \in OverrideSamples}

\* The directories a zone can be in, for a project root.
DataDirs(root) ==
    {resolve(Join(root, d)) :
        d \in {default_relative(z) : z \in Range(zone_labels)} \cup (OverrideSamples \ {<<>>})}
      \ {Unresolvable}

DataFile(dir, hint, version, age) ==
    [dir |-> dir, hint |-> hint, name |-> hint \o "_analytics_" \o version \o ".csv", age |-> age]

\* Disks: the files of one service in one directory, or in a directory under
\* it, and the default zone directories created or not.
DiskSamples(root) ==
    LET defaults == {resolve(Join(root, default_relative(z))) : z \in Range(zones)}
    IN UNION {UNION {
          {[dirs |-> {dir} \cup created, files |-> {DataFile(dir, hint, "old", 4)}],
           [dirs |-> {dir} \cup created,
            files |-> {DataFile(dir, hint, "new", 0), DataFile(dir, hint, "old", 4)}]} :
                dir \in {d : d \in DataDirs(root)} \cup {Append(d, "exports") : d \in DataDirs(root)},
                hint \in {"tiktok", "linktree"}} :
             created \in {{}, defaults}}

\* A monitor about to be built, on a disk that holds data files.
InitZones ==
    /\ pc = "zones_init"
    /\ service \in {"tiktok", "linktree"}
    /\ zone_files = NoZoneDirs
    /\ cookie_files = [dir |-> FALSE, files |-> <<>>]
    /\ toolost_raw = [direct |-> {}, streams |-> {}]
    /\ freshness = check_zone_freshness(NoZoneDirs)
    /\ cookie_health = NoCookieHealth
    /\ bottlenecks = <<>>
    /\ recommendations = <<>>
    /\ auto_actions = <<>>
    /\ health_score = None
    /\ score_runs = <<>>
    /\ ExecIdle
    /\ ReportIdle
    /\ MainIdle
    /\ CleanersIdle
    /\ project_root \in Roots
    /\ environ \in Environments
    /\ zone_dirs = [z \in Range(zone_labels) |-> <<>>]
    /\ disk \in DiskSamples(project_root)
    /\ latest_files = [z \in Range(zones) |-> ""]
    /\ FixIdle

\* self.zone_dirs = {...}: one call of _resolve_zone_dir for each zone.
ResolveZoneDirs ==
    /\ pc = "zones_init"
    /\ zone_dirs' = resolve_zone_dirs(project_root, environ)
    /\ pc' = "zones_resolved"
    /\ UNCHANGED <<check_vars, score_runs, exec_vars, report_vars, main_vars, cleaner_vars,
                   project_root, environ, disk, latest_files, fix_vars>>

\* check_zone_freshness(service) on the directories of self.zone_dirs.
ScanResolved ==
    /\ pc = "zones_resolved"
    /\ LET found == [z \in Range(zones) |-> scan_zone(zone_dirs[z], service, disk)]
       IN /\ zone_files' = [z \in Range(zones) |-> [exists |-> found[z].exists, age |-> found[z].age]]
          /\ freshness' = check_zone_freshness(zone_files')
          /\ latest_files' = [z \in Range(zones) |-> found[z].latest_file]
    /\ pc' = "zones_scanned"
    /\ UNCHANGED <<service, cookie_files, toolost_raw, cookie_health, bottlenecks,
                   recommendations, auto_actions, health_score, score_runs, exec_vars,
                   report_vars, main_vars, cleaner_vars, project_root, environ, zone_dirs, disk,
                   fix_vars>>

NextZones ==
    \/ ResolveZoneDirs
    \/ ScanResolved

SpecZones == InitZones /\ [][NextZones]_vars

(***************************************************************************)
(* Claims about the zone directories                                       *)
(***************************************************************************)
\* The path a zone is configured at: the override when it is absolute, the
\* override joined to the project root when it is relative, the default
\* joined to the project root when no override is set.
ConfiguredPath(z) ==
    LET override == environ[env_var(z)]
    IN IF override = <<>> THEN project_root \o default_relative(z)
       ELSE IF override[1] = "/" THEN override
       ELSE project_root \o override

\* The data files of the service in the directory a path names, or under it.
FilesPlacedAt(path) ==
    {f \in disk.files : f.hint = service /\ IsPrefix(resolve(path), f.dir)}

Entry(stem, suffix, kind, mtime) ==
    [name |-> <<stem, suffix>>, kind |-> kind, mtime |-> mtime]

\* directory.glob('*.json')
glob_json(entries) == {e \in entries : e.name[2] = ".json"}

\* json_file.is_file()
is_file(e) == e.kind = "file"

\* What detect_pipeline_bottlenecks sees of raw/toolost: the modification times
\* of what the two globs return; raw_streams is globbed only if it exists, and
\* the glob of a path that is no directory is empty.
glob_view(direct, streams_dir) ==
    [direct |-> {e.mtime : e \in glob_json(direct)},
     streams |-> IF streams_dir.kind = "dir"
                 THEN {e.mtime : e \in glob_json(streams_dir.entries)}
                 ELSE {}]

\* The entry of the directory with the name, if any.
named(entries, name) == {e \in entries : e.name = name}

\* json_file.rename(target) raises when the target is a directory, and on
\* Windows when the target exists at all; elsewhere a file at the target is
\* replaced.
rename_raises(e, streams_entries, os) ==
    \E t \in named(streams_entries, e.name) : t.kind = "dir" \/ os = "nt"

\* Layouts of raw/toolost before the first call.
RawDirSamples ==
    {a \cup b \cup n :
        a \in {{}, {Entry("a", ".json", "file", 2)}},
        b \in {{}, {Entry("b", ".json", "file", 1)}, {Entry("b", ".json", "file", 3)},
               {Entry("b", ".json", "dir", 3)}},
        n \in {{}, {Entry("notes", ".txt", "file", 3)}}}

StreamsSamples ==
    {[kind |-> "absent", entries |-> {}],
     [kind |-> "file", entries |-> {}],
     [kind |-> "dir", entries |-> {}],
     [kind |-> "dir", entries |-> {Entry("a", ".json", "file", 1)}],
     [kind |-> "dir", entries |-> {Entry("a", ".json", "dir", 1)}],
     [kind |-> "dir", entries |-> {Entry("c", ".json", "file", 3)}]}

\* The zones of toolost as the detector is given them: data of today, data of
\* four days, no data.
FixZoneFiles == {ZonesAged(0), ZonesAged(4), ZonesAged(None)}

\* A monitor and a layout of raw/toolost, at the call of _fix_toolost_directory.
InitFix ==
    /\ pc = "fix_start"
    /\ service = "toolost"
    /\ zone_files \in FixZoneFiles
    /\ cookie_files = [dir |-> FALSE, files |-> <<>>]
    /\ toolost_raw = [direct |-> {}, streams |-> {}]
    /\ freshness = check_zone_freshness(zone_files)
    /\ cookie_health = NoCookieHealth
    /\ bottlenecks = <<>>
    /\ recommendations = <<>>
    /\ auto_actions = <<>>
    /\ health_score = None
    /\ score_runs = <<>>
    /\ ExecIdle
    /\ ReportIdle
    /\ MainIdle
    /\ CleanersIdle
    /\ ZonesIdle
    /\ os_name \in {"posix", "nt"}
    /\ raw_dir \in RawDirSamples
    /\ raw_streams_dir \in StreamsSamples
    /\ pending = {}
    /\ moved_count = 0
    /\ fix_returns = <<>>
    /\ moved_counts = <<>>
    /\ entered_with = <<>>

\* raw_streams_dir.mkdir(parents=True, exist_ok=True), which raises when the
\* path is a file; moved_count = 0; the glob of raw_dir is taken.
FixMkdir ==
    /\ pc = "fix_start"
    /\ entered_with' = Append(entered_with, [raw_dir |-> raw_dir, raw_streams_dir |-> raw_streams_dir])
    /\ IF raw_streams_dir.kind = "file"
       THEN /\ fix_returns' = Append(fix_returns, FALSE)
            /\ moved_counts' = Append(moved_counts, 0)
            /\ pc' = "fix_returned"
            /\ UNCHANGED <<raw_streams_dir, pending, moved_count>>
       ELSE /\ raw_streams_dir' = [raw_streams_dir EXCEPT !.kind = "dir"]
            /\ pending' = glob_json(raw_dir)
            /\ moved_count' = 0
            /\ pc' = "fix_loop"
            /\ UNCHANGED <<fix_returns, moved_counts>>
    /\ UNCHANGED <<os_name, raw_dir>>
    /\ UNCHANGED <<check_vars, score_runs, exec_vars, report_vars, main_vars, cleaner_vars, zone_vars>>

\* One iteration of the loop over the glob, in the order the directory scan
\* gives: an entry that is a file is renamed into streams.
FixMove ==
    /\ pc = "fix_loop"
    /\ \E json_file \in pending :
          IF ~is_file(json_file)
          THEN /\ pending' = pending \ {json_file}
               /\ pc' = pc
               /\ UNCHANGED <<raw_dir, raw_streams_dir, moved_count, fix_returns, moved_counts>>
          ELSE IF rename_raises(json_file, raw_streams_dir.entries, os_name)
          THEN /\ fix_returns' = Append(fix_returns, FALSE)
               /\ moved_counts' = Append(moved_counts, moved_count)
               /\ pc' = "fix_returned"
               /\ UNCHANGED <<raw_dir, raw_streams_dir, pending, moved_count>>
          ELSE /\ raw_dir' = raw_dir \ {json_file}
               /\ raw_streams_dir' =
                     [raw_streams_dir EXCEPT
                         !.entries = (@ \ named(@, json_file.name)) \cup {json_file}]
               /\ moved_count' = moved_count + 1
               /\ pending' = pending \ {json_file}
               /\ pc' = pc
               /\ UNCHANGED <<fix_returns, moved_counts>>
    /\ UNCHANGED <<os_name, entered_with>>
    /\ UNCHANGED <<check_vars, score_runs, exec_vars, report_vars, main_vars, cleaner_vars, zone_vars>>

\* return True
FixReturn ==
    /\ pc = "fix_loop"
    /\ pending = {}
    /\ fix_returns' = Append(fix_returns, TRUE)
    /\ moved_counts' = Append(moved_counts, moved_count)
    /\ pc' = "fix_returned"
    /\ UNCHANGED <<os_name, raw_dir, raw_streams_dir, pending, moved_count, entered_with>>
    /\ UNCHANGED <<check_vars, score_runs, exec_vars, report_vars, main_vars, cleaner_vars, zone_vars>>

\* detect_pipeline_bottlenecks('toolost', freshness) on the layout the fix left.
DetectAfterFix ==
    /\ pc = "fix_returned"
    /\ toolost_raw' = glob_view(raw_dir, raw_streams_dir)
    /\ bottlenecks' = detect_pipeline_bottlenecks(service, freshness, toolost_raw')
    /\ pc' = "fix_detected"
    /\ UNCHANGED <<service, zone_files, cookie_files, freshness, cookie_health,
                   recommendations, auto_actions, health_score, score_runs>>
    /\ UNCHANGED <<exec_vars, report_vars, main_vars, cleaner_vars, zone_vars, fix_vars>>

\* _fix_toolost_directory is called a second time.
FixAgain ==
    /\ pc = "fix_detected"
    /\ Len(fix_returns) = 1
    /\ pc' = "fix_start"
    /\ UNCHANGED <<check_vars, score_runs, exec_vars, report_vars, main_vars, cleaner_vars,
                   zone_vars, fix_vars>>

NextFix ==
    \/ FixMkdir
    \/ FixMove
    \/ FixReturn
    \/ DetectAfterFix
    \/ FixAgain

SpecFix == InitFix /\ [][NextFix]_vars

(***************************************************************************)
(* Claims about _fix_toolost_directory                                     *)
(***************************************************************************)
JsonFiles(entries) == {e \in glob_json(entries) : is_file(e)}

StructuralFindings == {TooLostDirectText, TooLostNewerText}

\* The last call of _fix_toolost_directory has returned True.
FixSucceeded ==
    /\ pc \in {"fix_returned", "fix_detected"}
    /\ fix_returns[Len(fix_returns)]

\* C30: after _fix_toolost_directory has returned True no .json file remains
\* directly under raw/toolost, every file that was there is under
\* raw/toolost/streams, and a following detect_pipeline_bottlenecks for
\* toolost raises neither of the two findings about raw/toolost; a second run
\* of the fix moves nothing and returns True again.
C30_FixClearsStructuralFindings ==
    /\ FixSucceeded =>
          /\ JsonFiles(raw_dir) = {}
          /\ JsonFiles(entered_with[Len(entered_with)].raw_dir) \subseteq raw_streams_dir.entries
          /\ pc = "fix_detected" => \A i \in DOMAIN bottlenecks : bottlenecks[i] \notin StructuralFindings
    /\ (Len(fix_returns) = 2 /\ fix_returns[1]) =>
          /\ fix_returns[2]
          /\ moved_counts[2] = 0
          /\ raw_dir = entered_with[2].raw_dir
          /\ raw_streams_dir = entered_with[2].raw_streams_dir

\* The same holds when every entry of raw/toolost that matches *.json is a
\* regular file.
FixClearsFindingsOfRegularFiles ==
    (entered_with # <<>> /\ \A e \in glob_json(entered_with[1].raw_dir) : is_file(e)) =>
        C30_FixClearsStructuralFindings
====
